---- MODULE Spec2Model ----
(***************************************************************************)
(* lazycap: the process orchestration core of the terminal dashboard.      *)
(*                                                                         *)
(* The model follows internal/ui/model.go: the Bubble Tea model `Model`,   *)
(* its Update handler (one action per message kind), the tea.Cmd closures  *)
(* that run outside Update (runCmd, waitForOutput) and the goroutines that *)
(* runCmdWithPipes starts (two output readers and the completion watcher). *)
(* The callbacks that NewModelWithPlugins hands to the plugin Context are  *)
(* modelled on the Model value they capture.                               *)
(*                                                                         *)
(* ManagerSpec follows internal/plugin/manager.go, the plugin panel of     *)
(* model.go and the two built-in plugins over consecutive runs of the      *)
(* program; BusSpec follows the EventBus of manager.go.                    *)
(*                                                                         *)
(* ServerSpec follows one stream of a protocol server: the stdio loop of   *)
(* `lazycap mcp` (cmd/lazycap/root.go) or a connection of the mcp-server   *)
(* plugin (internal/plugins/mcp/mcp.go). BootSpec follows the bootDevice   *)
(* command of model.go and the handler of its deviceBootedMsg.             *)
(*                                                                         *)
(* The remaining specifications follow single pieces of code one goroutine *)
(* step at a time: QuitSpec the q key of the three panels, LockSpec the    *)
(* Manager's mutex and its SaveConfig, PipeSpec the goroutines of          *)
(* runCmdWithPipes, FbSpec the emulator process of the Firebase plugin,    *)
(* McpSpec the TCP listener of the mcp-server plugin. BootLiveSpec and     *)
(* McpLiveSpec add the scheduling of the runtime and of the accept loops.  *)
(***************************************************************************)
EXTENDS Integers, Sequences, FiniteSets, TLC

(* ------------------------------ bounds -------------------------------- *)

\* number of user-started commands (createProcess calls)
MaxProcs == 2
\* lines written by all commands together, over both output streams
MaxLines == 3
\* capacity of the output channel (make(chan string, 100)), scaled down
ChanCap == 2
\* retained lines per process (settings maxLogLines, 5000), scaled down
LogCap == 5
\* plugin log messages, error messages and Context calls, all together
MaxEvents == 2
\* runs of the program, one after the other, over the same plugins.json
MaxSessions == 2
\* Subscribe calls on the event bus
MaxSubs == 2
\* Emit calls on the event bus
MaxEmits == 3

\* request lines a client writes on one stream
MaxRequests == 3

\* seconds of time the quit key is followed over
MaxTime == 8

\* calls of the Manager's mutators
MaxCalls == 3

\* emulator launches attempted by the Firebase plugin
MaxLaunches == 3

(* ----------------------------- constants ------------------------------ *)

ProcessRunning == "Running"
ProcessSuccess == "Succeeded"
ProcessFailed == "Failed"
ProcessCancelled == "Cancelled"
Terminal == {ProcessSuccess, ProcessFailed, ProcessCancelled}

FocusDevices == "devices"
FocusLogs == "logs"

Streams == {"stdout", "stderr"}
Pids == 1..MaxProcs
PluginIds == {"mcp-server"}

\* raw lines a command can write: plain text, a line made only of an ANSI
\* escape and spaces, and the empty line
RawLines == {"ok", "\\x1b[0m ", ""}

\* process identifiers: fmt.Sprintf("p%d", n), "plugin-"+pluginID, "system"
UserID(n) == [k |-> "p", n |-> n, s |-> ""]
PluginID(pl) == [k |-> "plugin", n |-> 0, s |-> pl]
SystemID == [k |-> "system", n |-> 0, s |-> ""]

VARIABLES
    processes,        \* Model.processes of the model the program runs
    selectedProcess,  \* Model.selectedProcess (0-based)
    focus,            \* Model.focus
    nextProcessID,    \* Model.nextProcessID
    outputChans,      \* keys of Model.outputChans
    ctxProcesses,     \* processes of the Model value the Context callbacks captured
    chans,            \* per command: the output channel (buffer, closed)
    os,               \* per command: the OS process and its pipes
    tea,              \* per command: the tea.Cmd / tea.Msg in flight
    clock,            \* time.Now() readings taken for EndTime
    events,           \* plugin log messages, error messages and Context calls so far
    killErr,          \* what the last Context.KillProcess call returned
    session,          \* the run of the program: its number and how far it got
    disk,             \* ~/.config/lazycap/plugins.json
    mEnabled,         \* Manager.enabled
    mRunning,         \* Manager.running
    mStarted,         \* Manager.started
    plug,             \* the registered plugins' own state
    pluginCursor,     \* Model.pluginCursor
    ui,               \* the plugin panel's "e" handler in progress
    sig,              \* the signal-handling goroutine of the root command
    last,             \* the last registry-wide call and what it did
    topo,             \* the plugins enabled and running when the last shutdown began
    subscribers,      \* EventBus.subscribers of one event kind
    unsub,            \* per subscription: the index its unsubscribe function holds
    emit,             \* the Emit call in progress
    emitted,          \* Emit calls started so far
    pending,          \* handler goroutines started by Emit that have not run yet
    begun,            \* per subscription: the events its handler has begun, in order
    server,           \* which protocol server owns the stream
    mcpSettings,      \* Settings.MCPEnabled and Settings.MCPTools of the loaded settings
    stdin,            \* request lines written by the client and not yet scanned
    conn,             \* the serving loop: its position, the line in hand, the response in hand
    stdout,           \* responses the encoder has written, in order
    effects,          \* tool bodies that have run, in order
    boot,             \* the bootDevice tea.Cmd and its deviceBootedMsg
    devOnline,        \* Model.devices[i].Online
    quit,             \* Model.confirmQuit and Model.quitTime, the panel shown, the time
    lk,               \* Manager.mu, the maps it guards and the calls in progress
    pipe,             \* one command's pipes, channel and the goroutines of runCmdWithPipes
    fb,               \* FirebasePlugin: its fields, its emulator processes and goroutines
    mcpd              \* MCPPlugin: its fields, its listeners, accept loops and calls

modelVars == <<processes, selectedProcess, focus, nextProcessID, outputChans,
               ctxProcesses, chans, os, tea, clock, events, killErr>>
managerVars == <<session, disk, mEnabled, mRunning, mStarted, plug, pluginCursor,
                 ui, sig, last, topo>>
busVars == <<subscribers, unsub, emit, emitted, pending, begun>>
serverVars == <<server, mcpSettings, stdin, conn, stdout, effects>>
bootVars == <<boot, devOnline>>
moreVars == <<quit, lk, pipe, fb, mcpd>>
baseVars == <<modelVars, managerVars, busVars, serverVars, bootVars>>
notQuit == <<baseVars, lk, pipe, fb, mcpd>>
notLk == <<baseVars, quit, pipe, fb, mcpd>>
notPipe == <<baseVars, quit, lk, fb, mcpd>>
notFb == <<baseVars, quit, lk, pipe, mcpd>>
notMcpd == <<baseVars, quit, lk, pipe, fb>>
otherVars == <<serverVars, bootVars, moreVars>>
vars == <<modelVars, managerVars, busVars, otherVars>>

(* ------------------------------ plugins ------------------------------- *)

\* the built-in plugins, in registration order
MCP == "mcp-server"
Firebase == "firebase-emulator"
All == <<MCP, Firebase>>
Plugins == {All[i] : i \in 1..Len(All)}

\* an entry of Manager.enabled: missing, true or false
Flags == {"unset", "on", "off"}

\* plugins.json: absent, or any configuration an earlier version of the
\* program or the user left there (an entry can be missing)
NoFile == [exists |-> FALSE, enabled |-> [p \in Plugins |-> "unset"],
           running |-> [p \in Plugins |-> FALSE]]
Disks == {NoFile} \cup {[exists |-> TRUE, enabled |-> e, running |-> r] :
                            e \in [Plugins -> Flags], r \in [Plugins -> BOOLEAN]}

\* a plugin as New() builds it: not running, no Context, stop channel open
NewPlugin == [running |-> FALSE, ctx |-> FALSE, closes |-> 0]

\* no "e" key in progress, signal goroutine waiting, no registry-wide call yet
UiIdle == [pc |-> "idle", id |-> MCP, en |-> FALSE, was |-> FALSE, isEn |-> FALSE,
           ran |-> FALSE, flag |-> FALSE, started |-> FALSE, err |-> FALSE,
           calls |-> <<>>]
SigIdle == [pc |-> "idle", i |-> 0, noop |-> FALSE]
NoCall == [op |-> "none", eligible |-> {}, attempted |-> {}, failed |-> {},
           ret |-> "nil"]

(* ------------------------------ helpers ------------------------------- *)

\* one stored log line: what kind of line it is and where it came from
LogLine(tag, id, stream, n) == [tag |-> tag, src |-> id, stream |-> stream, n |-> n]

\* strings.TrimSpace(ansiRegex.ReplaceAllString(line, ""))
Clean(raw) ==
    CASE raw = "ok" -> "ok"
      [] raw = "\\x1b[0m " -> ""
      [] raw = "" -> ""

\* keep the last LogCap lines
TrimFront(logs) ==
    IF Len(logs) > LogCap THEN SubSeq(logs, Len(logs) - LogCap + 1, Len(logs)) ELSE logs

\* Process.AddLog: append, dropping from the front beyond the cap
AddLog(p, line) == [p EXCEPT !.Logs = TrimFront(Append(p.Logs, line))]

\* index (1-based) of the first process with this ID, 0 if none
RECURSIVE FindFrom(_, _, _)
FindFrom(procs, id, i) ==
    IF i > Len(procs) THEN 0
    ELSE IF procs[i].ID = id THEN i
    ELSE FindFrom(procs, id, i + 1)
Find(procs, id) == FindFrom(procs, id, 1)

\* Model.getSelectedProcess: 0 when there is none, else the 1-based index
getSelectedProcess ==
    IF Len(processes) = 0 \/ selectedProcess >= Len(processes) THEN 0
    ELSE selectedProcess + 1

NoLine == [stream |-> "", n |-> 0, raw |-> ""]

\* the Model value NewModelWithPlugins builds
ModelInit ==
    /\ processes = <<>>
    /\ selectedProcess = 0
    /\ focus = FocusDevices
    /\ nextProcessID = 1
    /\ outputChans = {}
    /\ ctxProcesses = <<>>
    /\ chans = [n \in Pids |-> [buf |-> <<>>, closed |-> FALSE]]
    /\ os = [n \in Pids |-> [state |-> "none", killed |-> FALSE, exit |-> "none",
                             rd |-> [s \in Streams |-> 0], text |-> 0]]
    /\ tea = [n \in Pids |-> [pc |-> "none", line |-> NoLine, err |-> FALSE]]
    /\ clock = 0
    /\ events = 0
    /\ killErr = "none"

(* --------------------------- process start ---------------------------- *)

\* lines the commands have written so far
RECURSIVE SumLines(_)
SumLines(n) == IF n = 0 THEN 0 ELSE os[n].rd["stdout"] + os[n].rd["stderr"] + SumLines(n - 1)
LinesWritten == SumLines(MaxProcs)

\* the explored runs: one command that writes up to MaxLines lines, or up to
\* MaxProcs commands that write fewer, or one command that writes fewer with
\* up to MaxEvents plugin, error and Context events
Solo == nextProcessID <= 2 /\ events = 0
CanStart == /\ nextProcessID <= MaxProcs
            /\ nextProcessID > 1 => (events = 0 /\ LinesWritten < MaxLines)
CanEvent == events < MaxEvents /\ nextProcessID <= 2 /\ LinesWritten < MaxLines
CanWrite == \/ LinesWritten < MaxLines - 1
            \/ LinesWritten = MaxLines - 1 /\ Solo

\* Model.createProcess: a Running record with the "$ command" line, selected
createProcess(procs, n) ==
    Append(procs, [ID |-> UserID(n), Status |-> ProcessRunning, Cmd |-> FALSE,
                   EndTime |-> 0,
                   Logs |-> <<LogLine("cmd", UserID(n), "", 0)>>])

\* the b/s/o/u keys: runAction -> startBuildCommand (startSyncCommand,
\* startOpenCommand, startRunCommand and startUpgrade have the same shape):
\* createProcess, then the runCmd tea.Cmd is handed to the runtime
startBuildCommand ==
    /\ CanStart
    /\ processes' = createProcess(processes, nextProcessID)
    /\ selectedProcess' = Len(processes') - 1
    /\ nextProcessID' = nextProcessID + 1
    /\ tea' = [tea EXCEPT ![nextProcessID].pc = "cmd"]
    /\ UNCHANGED <<focus, outputChans, ctxProcesses, chans, os, clock, events, killErr>>
    /\ UNCHANGED <<managerVars, busVars, otherVars>>

\* a start failure reported without its error
runCmdWithPipesFailNoErr(n) ==
    /\ tea[n].pc = "cmd"
    /\ chans' = [chans EXCEPT ![n].closed = TRUE]
    /\ os' = [os EXCEPT ![n].state = "startfail"]
    /\ tea' = [tea EXCEPT ![n] = [pc |-> "finished", line |-> NoLine, err |-> FALSE]]
    /\ UNCHANGED <<processes, selectedProcess, focus, nextProcessID, outputChans,
                   ctxProcesses, clock, events, killErr>>
    /\ UNCHANGED <<managerVars, busVars, otherVars>>

\* runCmd -> runCmdWithPipes, StdoutPipe/StderrPipe/Start returned an error:
\* close(ch) and a processFinishedMsg carrying the error
runCmdWithPipesFail(n) ==
    /\ tea[n].pc = "cmd"
    /\ chans' = [chans EXCEPT ![n].closed = TRUE]
    /\ os' = [os EXCEPT ![n].state = "startfail"]
    /\ tea' = [tea EXCEPT ![n] = [pc |-> "finished", line |-> NoLine, err |-> TRUE]]
    /\ UNCHANGED <<processes, selectedProcess, focus, nextProcessID, outputChans,
                   ctxProcesses, clock, events, killErr>>
    /\ UNCHANGED <<managerVars, busVars, otherVars>>

\* runCmd -> runCmdWithPipes, the command started: the two readers and the
\* completion watcher run from now on, a processStartedMsg is returned
runCmdWithPipesStart(n) ==
    /\ tea[n].pc = "cmd"
    /\ os' = [os EXCEPT ![n].state = "running"]
    /\ tea' = [tea EXCEPT ![n].pc = "started"]
    /\ UNCHANGED <<processes, selectedProcess, focus, nextProcessID, outputChans,
                   ctxProcesses, chans, clock, events, killErr>>
    /\ UNCHANGED <<managerVars, busVars, otherVars>>

(* --------------------- goroutines of runCmdWithPipes ------------------- *)

\* a send that puts the line ahead of the lines already queued
TrySendFront(buf, line) == IF Len(buf) < ChanCap THEN <<line>> \o buf ELSE buf

\* the non-blocking send of a reader: select { case ch <- line: default: }
TrySend(buf, line) == IF Len(buf) < ChanCap THEN Append(buf, line) ELSE buf

\* one iteration of a reader goroutine: scanner.Scan() returned the next line
\* the command wrote to this stream, which is then offered to the channel
readerScan(n, s, raw) ==
    /\ os[n].state = "running"
    /\ CanWrite
    /\ LET k == os[n].rd[s] + 1
           line == [stream |-> s, n |-> k, raw |-> raw]
       IN /\ os' = [os EXCEPT ![n].rd[s] = k,
                              ![n].text = @ + (IF Clean(raw) = "" THEN 0 ELSE 1)]
          /\ chans' = [chans EXCEPT ![n].buf = TrySend(@, line)]
    /\ UNCHANGED <<processes, selectedProcess, focus, nextProcessID, outputChans,
                   ctxProcesses, tea, clock, events, killErr>>
    /\ UNCHANGED <<managerVars, busVars, otherVars>>

\* the completion watcher: cmd.Wait() returned (its error is discarded), the
\* pipes are closed by Wait and the channel is closed
cmdWait(n, code) ==
    /\ os[n].state = "running"
    /\ os' = [os EXCEPT ![n].state = "waited",
                        ![n].exit = IF os[n].killed THEN "signal" ELSE code]
    /\ chans' = [chans EXCEPT ![n].closed = TRUE]
    /\ UNCHANGED <<processes, selectedProcess, focus, nextProcessID, outputChans,
                   ctxProcesses, tea, clock, events, killErr>>
    /\ UNCHANGED <<managerVars, busVars, otherVars>>

\* the waitForOutput tea.Cmd: line, ok := <-ch
waitForOutput(n) ==
    /\ tea[n].pc = "wait"
    /\ \/ /\ chans[n].buf # <<>>
          /\ tea' = [tea EXCEPT ![n] = [pc |-> "output", line |-> Head(chans[n].buf),
                                        err |-> FALSE]]
          /\ chans' = [chans EXCEPT ![n].buf = Tail(@)]
       \/ /\ chans[n].buf = <<>>
          /\ chans[n].closed
          /\ tea' = [tea EXCEPT ![n] = [pc |-> "finished", line |-> NoLine, err |-> FALSE]]
          /\ UNCHANGED chans
    /\ UNCHANGED <<processes, selectedProcess, focus, nextProcessID, outputChans,
                   ctxProcesses, os, clock, events, killErr>>
    /\ UNCHANGED <<managerVars, busVars, otherVars>>

(* ------------------------------ Update --------------------------------- *)

\* case processStartedMsg: the handle and the channel are stored on the record
\* with the message's id, then waitForOutput is issued
UpdateProcessStarted(n) ==
    /\ tea[n].pc = "started"
    /\ LET i == Find(processes, UserID(n))
       IN IF i = 0
          THEN UNCHANGED <<processes, outputChans>>
          ELSE /\ processes' = [processes EXCEPT ![i].Cmd = TRUE]
               /\ outputChans' = outputChans \cup {n}
    /\ tea' = [tea EXCEPT ![n].pc = "wait"]
    /\ UNCHANGED <<selectedProcess, focus, nextProcessID, ctxProcesses, chans, os,
                   clock, events, killErr>>
    /\ UNCHANGED <<managerVars, busVars, otherVars>>

\* the body of the processOutputMsg loop for the record it matches
StoreOutput(p, id, line) ==
    IF line.raw # "" /\ Clean(line.raw) # ""
    THEN AddLog(p, LogLine("out", id, line.stream, line.n))
    ELSE p

\* case processOutputMsg: the cleaned line is appended to the first record with
\* the message's id; waitForOutput is issued again while the channel is known
UpdateProcessOutput(n) ==
    /\ tea[n].pc = "output"
    /\ LET i == Find(processes, UserID(n))
       IN IF i = 0
          THEN UNCHANGED processes
          ELSE processes' = [processes EXCEPT ![i] = StoreOutput(@, UserID(n), tea[n].line)]
    /\ tea' = [tea EXCEPT ![n] = [pc |-> IF n \in outputChans THEN "wait" ELSE "done",
                                  line |-> NoLine, err |-> FALSE]]
    /\ UNCHANGED <<selectedProcess, focus, nextProcessID, outputChans, ctxProcesses,
                   chans, os, clock, events, killErr>>
    /\ UNCHANGED <<managerVars, busVars, otherVars>>

\* the body of the processFinishedMsg loop for a Running record
Finish(p, id, err, now) ==
    IF err
    THEN [AddLog([p EXCEPT !.Status = ProcessFailed], LogLine("error", id, "", 0))
             EXCEPT !.EndTime = now]
    ELSE [AddLog([p EXCEPT !.Status = ProcessSuccess], LogLine("done", id, "", 0))
             EXCEPT !.EndTime = now]

\* case processFinishedMsg: a record with the message's id that is still
\* Running becomes Failed or Succeeded; the channel is forgotten
UpdateProcessFinished(n) ==
    /\ tea[n].pc = "finished"
    /\ LET i == Find(processes, UserID(n))
       IN IF i # 0 /\ processes[i].Status = ProcessRunning
          THEN /\ processes' = [processes EXCEPT
                                   ![i] = Finish(@, UserID(n), tea[n].err, clock + 1)]
               /\ clock' = clock + 1
          ELSE UNCHANGED <<processes, clock>>
    /\ outputChans' = outputChans \ {n}
    /\ tea' = [tea EXCEPT ![n] = [pc |-> "done", line |-> NoLine, err |-> FALSE]]
    /\ UNCHANGED <<selectedProcess, focus, nextProcessID, ctxProcesses, chans, os,
                   events, killErr>>
    /\ UNCHANGED <<managerVars, busVars, otherVars>>

\* Process.Kill on the OS process of a record: only user commands have one
KillOS(o, id) ==
    [n \in Pids |-> IF UserID(n) = id THEN [o[n] EXCEPT !.killed = TRUE] ELSE o[n]]

\* the body of the kill key for a Running record with a live handle
Cancel(p, now) ==
    AddLog([p EXCEPT !.Status = ProcessCancelled, !.EndTime = now],
           LogLine("killed", p.ID, "", 0))

\* case key.Matches(msg, m.keys.Kill)
KeyKill ==
    LET i == getSelectedProcess
    IN IF i # 0 /\ processes[i].Status = ProcessRunning /\ processes[i].Cmd
       THEN /\ os' = KillOS(os, processes[i].ID)
            /\ processes' = [processes EXCEPT ![i] = Cancel(@, clock + 1)]
            /\ clock' = clock + 1
            /\ UNCHANGED <<selectedProcess, focus, nextProcessID, outputChans,
                           ctxProcesses, chans, tea, events, killErr>>
            /\ UNCHANGED <<managerVars, busVars, otherVars>>
       ELSE UNCHANGED vars

\* case key.Matches(msg, m.keys.Tab)
KeyTab ==
    /\ focus' = IF focus = FocusDevices THEN FocusLogs ELSE FocusDevices
    /\ UNCHANGED <<processes, selectedProcess, nextProcessID, outputChans, ctxProcesses,
                   chans, os, tea, clock, events, killErr>>
    /\ UNCHANGED <<managerVars, busVars, otherVars>>

\* case key.Matches(msg, m.keys.Left)
KeyLeft ==
    /\ selectedProcess' = IF focus = FocusLogs /\ selectedProcess > 0
                          THEN selectedProcess - 1 ELSE selectedProcess
    /\ UNCHANGED <<processes, focus, nextProcessID, outputChans, ctxProcesses,
                   chans, os, tea, clock, events, killErr>>
    /\ UNCHANGED <<managerVars, busVars, otherVars>>

\* case key.Matches(msg, m.keys.Right)
KeyRight ==
    /\ selectedProcess' = IF focus = FocusLogs /\ selectedProcess < Len(processes) - 1
                          THEN selectedProcess + 1 ELSE selectedProcess
    /\ UNCHANGED <<processes, focus, nextProcessID, outputChans, ctxProcesses,
                   chans, os, tea, clock, events, killErr>>
    /\ UNCHANGED <<managerVars, busVars, otherVars>>

\* Model.addLog on a process list: a "system" record is created when the list
\* is empty, otherwise the line goes to the first record of the list
addLog(procs, line) ==
    IF Len(procs) = 0
    THEN <<[ID |-> SystemID, Status |-> ProcessSuccess, Cmd |-> FALSE, EndTime |-> 0,
            Logs |-> <<line>>]>>
    ELSE [procs EXCEPT ![1] = AddLog(@, line)]

SysLine == LogLine("sys", SystemID, "", 0)

\* case errMsg (a failed device listing): m.addLog("Error: ...")
UpdateErrMsg ==
    /\ CanEvent
    /\ events' = events + 1
    /\ processes' = addLog(processes, SysLine)
    /\ selectedProcess' = IF Len(processes) = 0 THEN 0 ELSE selectedProcess
    /\ UNCHANGED <<focus, nextProcessID, outputChans, ctxProcesses, chans, os, tea,
                   clock, killErr>>
    /\ UNCHANGED <<managerVars, busVars, otherVars>>

\* the status a plugin tab takes from the text of a log message
PluginStatus(p, stopped, error, now) ==
    LET a == IF stopped THEN [p EXCEPT !.Status = ProcessSuccess, !.EndTime = now] ELSE p
    IN IF error THEN [a EXCEPT !.Status = ProcessFailed] ELSE a

\* case pluginLogMsg: find or create the tab "plugin-<id>", append the line,
\* mark it finished on a "stopped"/"shutdown" text and failed on an error text
UpdatePluginLog(pl, stopped, error) ==
    /\ CanEvent
    /\ events' = events + 1
    /\ LET i == Find(processes, PluginID(pl))
           fresh == [ID |-> PluginID(pl), Status |-> ProcessRunning, Cmd |-> FALSE,
                     EndTime |-> 0, Logs |-> <<>>]
           procs == IF i = 0 THEN Append(processes, fresh) ELSE processes
           j == IF i = 0 THEN Len(procs) ELSE i
           now == IF stopped THEN clock + 1 ELSE clock
       IN /\ processes' = [procs EXCEPT ![j] =
                PluginStatus(AddLog(@, LogLine("plugin", PluginID(pl), "", 0)),
                             stopped, error, now)]
          /\ clock' = now
    /\ UNCHANGED <<selectedProcess, focus, nextProcessID, outputChans, ctxProcesses,
                   chans, os, tea, killErr>>
    /\ UNCHANGED <<managerVars, busVars, otherVars>>

(* ------------------ callbacks handed to the plugin Context -------------- *)

\* the records the KillProcess callback accepts: Running with a live handle
Killable(procs, id) ==
    {i \in 1..Len(procs) : procs[i].ID = id /\ procs[i].Status = ProcessRunning
                            /\ procs[i].Cmd}

\* Context.KillProcess -> the KillProcess callback of NewModelWithPlugins: it
\* ranges over the processes of the Model value the closure captured
CtxKillProcess(id) ==
    /\ CanEvent
    /\ events' = events + 1
    /\ IF Killable(ctxProcesses, id) # {}
       THEN /\ os' = KillOS(os, id)
            /\ killErr' = "nil"
       ELSE /\ killErr' = "error"
            /\ UNCHANGED os
    /\ UNCHANGED <<processes, selectedProcess, focus, nextProcessID, outputChans,
                   ctxProcesses, chans, tea, clock>>
    /\ UNCHANGED <<managerVars, busVars, otherVars>>

\* the Log callback of NewModelWithPlugins: addLog on the captured Model value
CtxLog ==
    /\ CanEvent
    /\ events' = events + 1
    /\ ctxProcesses' = addLog(ctxProcesses, SysLine)
    /\ UNCHANGED <<processes, selectedProcess, focus, nextProcessID, outputChans,
                   chans, os, tea, clock, killErr>>
    /\ UNCHANGED <<managerVars, busVars, otherVars>>

\* identifiers a caller can pass to Context.KillProcess
KillIds == {UserID(n) : n \in Pids} \cup {SystemID}

(* ------------------------------ event bus ------------------------------ *)

\* subscriptions are numbered in the order of the Subscribe calls; 0 is the nil
\* that an unsubscribe leaves in the handler slice
Subs == 1..MaxSubs

BusIdle ==
    /\ subscribers = <<>>
    /\ unsub = [h \in Subs |-> [idx |-> -1, at |-> -1]]
    /\ emit = [pc |-> "idle", ev |-> 0, snap |-> <<>>]
    /\ emitted = 0
    /\ pending = {}
    /\ begun = [h \in Subs |-> <<>>]

(* --------------------------- protocol servers -------------------------- *)

\* `lazycap mcp` (runMCPServer) and the server of the mcp-server plugin
Standalone == "standalone"
PluginServer == "plugin"
Servers == {Standalone, PluginServer}

RunOnDevice == "run_on_device"
RunDebugActionTool == "run_debug_action"
KillProcessTool == "kill_process"

\* Settings after settings.Load with no file: MCP on, no per-tool entry
DefaultSettings == [MCPEnabled |-> TRUE, MCPTools |-> [t \in {RunDebugActionTool} |-> "unset"]]

NoLineRead == [kind |-> "none", id |-> 0, method |-> "", name |-> "", arg |-> ""]
NoResponse == [id |-> 0, seq |-> 0, kind |-> "none", code |-> 0, message |-> "",
               tools |-> {}]
\* n: lines scanned; served: the lines handed to the handler, in order
ConnIdle == [pc |-> "scan", line |-> NoLineRead, resp |-> NoResponse, n |-> 0,
             served |-> <<>>]

ServerIdle ==
    /\ server = Standalone
    /\ mcpSettings = DefaultSettings
    /\ stdin = <<>>
    /\ conn = ConnIdle
    /\ stdout = <<>>
    /\ effects = <<>>

(* ------------------------------ device boot ---------------------------- *)

Devices == {"sim-1", "emu-1"}
BootIdle ==
    /\ boot = [pc |-> "idle", dev |-> "", liveReload |-> FALSE, i |-> 0, err |-> "nil"]
    /\ devOnline = [d \in Devices |-> FALSE]

(* ------------------- state of the goroutine-level models ---------------- *)

\* Model.confirmQuit, Model.quitTime, the panel shown; `now` is time.Now() in
\* seconds, lastQ the time of the latest q press (-1: none)
QuitIdle ==
    quit = [confirmQuit |-> FALSE, quitTime |-> 0, view |-> "main", now |-> 0,
            quitting |-> FALSE, lastQ |-> -1, prevQ |-> -1]

\* goroutines that call the Manager: the UI and a plugin
Callers == {1, 2}

NoCallOn == [pc |-> "idle", op |-> "", val |-> FALSE, data |-> <<>>]

\* NewManager: empty maps (one plugin's entry of each is followed), no file;
\* bare collects the fields accessed by a goroutine that held no lock
LockIdle ==
    lk = [writer |-> 0, readers |-> {},
          mem |-> [enabled |-> FALSE, running |-> FALSE, settings |-> FALSE],
          file |-> <<>>, g |-> [c \in Callers |-> NoCallOn], calls |-> 0, bare |-> {}]

\* runCmdWithPipes after cmd.Start(): both readers at their first Scan, the
\* watcher in cmd.Wait(), the channel open and empty
PipeIdle ==
    pipe = [rd |-> [s \in Streams |-> "scan"], written |-> 0, exited |-> FALSE,
            watcher |-> "wait", closed |-> FALSE, buf |-> <<>>, panic |-> FALSE]

\* the Firebase plugin after Init: not running, no process handle (0 is nil),
\* nothing launched; alive are the emulator processes that have not exited,
\* watch the launches whose exit watcher has not finished, waits the
\* goroutines started by Stop that have not yet called p.cmd.Wait(), cur
\* the launch of the last Start that succeeded, stopped whether Stop was
\* called after it
FbIdle ==
    fb = [running |-> FALSE, cmd |-> 0, pc |-> "idle", launches |-> 0,
          alive |-> {}, watch |-> {}, waits |-> 0, cur |-> 0,
          stopped |-> FALSE, panic |-> FALSE]

\* the MCP plugin after New, in TCP mode: not running, no listener (0 is
\* nil), stopCh the channel made by New (channel 0); chans counts the
\* channels made by Start, closedCh are the closed ones, open the listeners
\* bound to the port, loop the accept loop of each listener with the channel
\* that was p.stopCh when its Start made it, g the position of each caller
\* inside Start
McpIdle ==
    mcpd = [running |-> FALSE, listener |-> 0, stopCh |-> 0, chans |-> 0,
            closedCh |-> {}, open |-> {}, listeners |-> 0,
            loop |-> [l \in 1..MaxCalls |-> [st |-> "none", from |-> 0]],
            g |-> [c \in Callers |-> [pc |-> "idle", ch |-> 0, l |-> 0]],
            calls |-> 0]

MoreIdle ==
    /\ QuitIdle
    /\ LockIdle
    /\ PipeIdle
    /\ FbIdle
    /\ McpIdle

(* --------------------- plugin registry and lifecycle -------------------- *)

\* Manager.IsEnabled: a plugin with no stored flag counts as enabled
IsEnabled(en, id) == en[id] # "off"

\* Manager.WasRunning
WasRunning(rn, id) == rn[id]

\* Manager.LoadConfig: the stored maps, or initDefaults when there is no file
LoadConfig(d) ==
    IF d.exists
    THEN [enabled |-> d.enabled, running |-> d.running]
    ELSE [enabled |-> [p \in Plugins |-> "on"], running |-> [p \in Plugins |-> FALSE]]

\* Manager.SaveConfig: the maps as they are now go to plugins.json
SaveConfig(en, rn) == [exists |-> TRUE, enabled |-> en, running |-> rn]

\* MCPPlugin.Init, FirebasePlugin.Init: store the Context, never fail
PluginInit(ps) == [ps EXCEPT !.ctx = TRUE]

\* what a Start call can meet: "ok", "late" (the listener or the emulator
\* command fails after the stop channel was made) and, for the emulators,
\* "early" (no firebase CLI, no emulator enabled)
StartWants(id) == IF id = MCP THEN {"ok", "late"} ELSE {"ok", "early", "late"}

\* what the Start calls of one loop over the plugins can meet
WantMaps == {[p \in Plugins |-> IF p = MCP THEN wm ELSE wf] :
                wm \in StartWants(MCP), wf \in StartWants(Firebase)}

\* MCPPlugin.Start, FirebasePlugin.Start: the plugin afterwards and the result,
\* "panic" being the nil Context dereference of p.ctx.Log
Start(id, ps, want) ==
    IF ps.running THEN [ps |-> ps, res |-> "ok"]
    ELSE IF id = Firebase /\ ~ps.ctx THEN [ps |-> ps, res |-> "err"]
    ELSE IF id = Firebase /\ want = "early" THEN [ps |-> ps, res |-> "err"]
    ELSE IF want = "late"
         THEN [ps |-> [ps EXCEPT !.running = FALSE, !.closes = 0], res |-> "err"]
    ELSE [ps |-> [ps EXCEPT !.running = TRUE, !.closes = 0],
          res |-> IF ps.ctx THEN "ok" ELSE "panic"]

\* a Stop that closes the stop channel whether the plugin runs or not
StopUnchecked(id, ps) ==
    [ps |-> [ps EXCEPT !.running = FALSE,
                       !.closes = IF id = MCP THEN (IF @ < 2 THEN @ + 1 ELSE 2) ELSE 1],
     err |-> FALSE]

\* MCPPlugin.Stop, FirebasePlugin.Stop: nothing when not running; otherwise the
\* stop channel is closed (the emulators' one only if it is still open)
Stop(id, ps) ==
    IF ~ps.running THEN [ps |-> ps, err |-> FALSE]
    ELSE [ps |-> [ps EXCEPT !.running = FALSE,
                            !.closes = IF id = MCP THEN (IF @ < 2 THEN @ + 1 ELSE 2) ELSE 1],
          err |-> FALSE]

\* the loop of InitAll: Init on every enabled plugin
InitEach(pl, en) ==
    [plug |-> [p \in Plugins |-> IF IsEnabled(en, p) THEN PluginInit(pl[p]) ELSE pl[p]],
     attempted |-> {p \in Plugins : IsEnabled(en, p)},
     failed |-> {}]

\* a start loop that gives up at the first failure
RECURSIVE StartEachHalt(_, _, _, _)
StartEachHalt(i, pl, elig, w) ==
    IF i > Len(All) THEN [plug |-> pl, attempted |-> {}, failed |-> {}, panic |-> FALSE]
    ELSE LET id == All[i] IN
         IF id \notin elig THEN StartEachHalt(i + 1, pl, elig, w)
         ELSE LET r == Start(id, pl[id], w[id])
                  here == [pl EXCEPT ![id] = r.ps]
              IN IF r.res = "err"
                 THEN [plug |-> here, attempted |-> {id}, failed |-> {id}, panic |-> FALSE]
                 ELSE LET rest == StartEachHalt(i + 1, here, elig, w)
                      IN [plug |-> rest.plug, attempted |-> rest.attempted \cup {id},
                          failed |-> rest.failed,
                          panic |-> rest.panic \/ r.res = "panic"]

\* the loop of StartAll and StartAutoStart over the eligible plugins, in
\* registration order: an error is logged and the loop goes on
RECURSIVE StartEach(_, _, _, _)
StartEach(i, pl, elig, w) ==
    IF i > Len(All) THEN [plug |-> pl, attempted |-> {}, failed |-> {}, panic |-> FALSE]
    ELSE LET id == All[i] IN
         IF id \notin elig THEN StartEach(i + 1, pl, elig, w)
         ELSE LET r == Start(id, pl[id], w[id])
                  rest == StartEach(i + 1, [pl EXCEPT ![id] = r.ps], elig, w)
              IN [plug |-> rest.plug, attempted |-> rest.attempted \cup {id},
                  failed |-> rest.failed \cup (IF r.res = "err" THEN {id} ELSE {}),
                  panic |-> rest.panic \/ r.res = "panic"]

\* the loop of StopAll: Stop on every plugin that is running, the last error kept
RECURSIVE StopEach(_, _)
StopEach(i, pl) ==
    IF i > Len(All) THEN [plug |-> pl, attempted |-> {}, failed |-> {}, ret |-> "nil"]
    ELSE LET id == All[i] IN
         IF ~pl[id].running THEN StopEach(i + 1, pl)
         ELSE LET r == Stop(id, pl[id])
                  rest == StopEach(i + 1, [pl EXCEPT ![id] = r.ps])
              IN [plug |-> rest.plug, attempted |-> rest.attempted \cup {id},
                  failed |-> rest.failed \cup (IF r.err THEN {id} ELSE {}),
                  ret |-> IF rest.ret # "nil" THEN rest.ret
                          ELSE IF r.err THEN id ELSE "nil"]

\* a snapshot that records nothing as running
SnapshotNone(pl) == [p \in Plugins |-> FALSE]

\* the SetRunning(p.ID(), p.IsRunning()) loop that precedes StopAll
SnapshotRunning(pl) == [p \in Plugins |-> pl[p].running]

\* the plugins enabled and running right now
Topology == {p \in Plugins : IsEnabled(mEnabled, p) /\ plug[p].running}

\* the program has not been started yet
ManagerIdle ==
    /\ session = [n |-> 1, phase |-> "boot"]
    /\ disk = NoFile
    /\ mEnabled = [p \in Plugins |-> "unset"]
    /\ mRunning = [p \in Plugins |-> FALSE]
    /\ mStarted = FALSE
    /\ plug = [p \in Plugins |-> NewPlugin]
    /\ pluginCursor = 0
    /\ ui = UiIdle
    /\ sig = SigIdle
    /\ last = NoCall
    /\ topo = [valid |-> FALSE, set |-> {}]

\* the start of a run: any plugins.json, everything else as constructed
ManagerInit ==
    /\ ModelInit
    /\ BusIdle
    /\ ServerIdle
    /\ BootIdle
    /\ MoreIdle
    /\ session = [n |-> 1, phase |-> "boot"]
    /\ disk \in Disks
    /\ mEnabled = [p \in Plugins |-> "unset"]
    /\ mRunning = [p \in Plugins |-> FALSE]
    /\ mStarted = FALSE
    /\ plug = [p \in Plugins |-> NewPlugin]
    /\ pluginCursor = 0
    /\ ui = UiIdle
    /\ sig = SigIdle
    /\ last = NoCall
    /\ topo = [valid |-> FALSE, set |-> {}]

\* Manager.InitAll, called by the root command before the UI runs
InitAll ==
    /\ session.phase = "boot"
    /\ LET c == LoadConfig(disk)
           r == InitEach(plug, c.enabled)
       IN /\ mEnabled' = c.enabled
          /\ mRunning' = c.running
          /\ plug' = r.plug
          /\ last' = [op |-> "InitAll",
                      eligible |-> {p \in Plugins : IsEnabled(c.enabled, p)},
                      attempted |-> r.attempted, failed |-> r.failed, ret |-> "nil"]
    /\ session' = [session EXCEPT !.phase = "inited"]
    /\ UNCHANGED <<disk, mStarted, pluginCursor, ui, sig, topo>>
    /\ UNCHANGED <<modelVars, busVars, otherVars>>

\* Manager.StartAutoStart: Start on the enabled plugins whose running flag is
\* set; the EventAppStarted it emits has no subscriber
StartAutoStart(w) ==
    /\ session.phase = "inited"
    /\ LET elig == {p \in Plugins : IsEnabled(mEnabled, p) /\ WasRunning(mRunning, p)}
           r == StartEach(1, plug, elig, w)
       IN /\ plug' = r.plug
          /\ last' = [op |-> "StartAutoStart", eligible |-> elig,
                      attempted |-> r.attempted, failed |-> r.failed, ret |-> "nil"]
          /\ session' = [session EXCEPT !.phase = IF r.panic THEN "down" ELSE "active"]
    /\ mStarted' = TRUE
    /\ UNCHANGED <<disk, mEnabled, mRunning, pluginCursor, ui, sig, topo>>
    /\ UNCHANGED <<modelVars, busVars, otherVars>>

\* Manager.StartAll, which no caller in the program uses: the plugins after
\* Start on every enabled one, and which were called and which failed
StartAll(pl, en, w) == StartEach(1, pl, {p \in Plugins : IsEnabled(en, p)}, w)

\* the kill loop of gracefulShutdown over the process table
KillRunning(o, procs) ==
    [n \in Pids |->
        IF \E i \in 1..Len(procs) : /\ procs[i].ID = UserID(n)
                                    /\ procs[i].Status = ProcessRunning
                                    /\ procs[i].Cmd
        THEN [o[n] EXCEPT !.killed = TRUE] ELSE o[n]]

\* Model.gracefulShutdown (ctrl+c, or q twice): the running processes are
\* killed, each plugin's running state is recorded and saved, then StopAll
Shutdown ==
    /\ os' = KillRunning(os, processes)
    /\ LET rn == SnapshotRunning(plug)
           r == StopEach(1, plug)
       IN /\ mRunning' = rn
          /\ disk' = SaveConfig(mEnabled, rn)
          /\ plug' = r.plug
          /\ last' = [op |-> "StopAll", eligible |-> {p \in Plugins : plug[p].running},
                      attempted |-> r.attempted, failed |-> r.failed, ret |-> r.ret]
    /\ topo' = [valid |-> sig.pc = "idle", set |-> Topology]
    /\ mStarted' = FALSE
    /\ session' = [session EXCEPT !.phase = "down"]
    /\ sig' = SigIdle
    /\ UNCHANGED <<mEnabled, pluginCursor, ui>>
    /\ UNCHANGED <<processes, selectedProcess, focus, nextProcessID, outputChans,
                   ctxProcesses, chans, tea, clock, events, killErr>>
    /\ UNCHANGED busVars

\* ctrl+c in a running session
gracefulShutdown ==
    /\ session.phase = "active"
    /\ ui.pc = "idle"
    /\ Shutdown
    /\ UNCHANGED otherVars

\* the program is run again: new plugin objects, a new Manager, the same file
Restart ==
    /\ session.phase = "down"
    /\ session.n < MaxSessions
    /\ session' = [n |-> session.n + 1, phase |-> "boot"]
    /\ mEnabled' = [p \in Plugins |-> "unset"]
    /\ mRunning' = [p \in Plugins |-> FALSE]
    /\ mStarted' = FALSE
    /\ plug' = [p \in Plugins |-> NewPlugin]
    /\ pluginCursor' = 0
    /\ ui' = UiIdle
    /\ sig' = SigIdle
    /\ last' = NoCall
    /\ UNCHANGED <<disk, topo>>
    /\ UNCHANGED <<modelVars, busVars, otherVars>>

\* the plugin panel is open and no key is being handled
PanelReady == session.phase = "active" /\ ui.pc = "idle"

\* handlePluginsInput, "up"/"k"
PluginsKeyUp ==
    /\ PanelReady
    /\ pluginCursor' = IF pluginCursor > 0 THEN pluginCursor - 1 ELSE pluginCursor
    /\ UNCHANGED <<session, disk, mEnabled, mRunning, mStarted, plug, ui, sig, last, topo>>
    /\ UNCHANGED <<modelVars, busVars, otherVars>>

\* handlePluginsInput, "down"/"j"
PluginsKeyDown ==
    /\ PanelReady
    /\ pluginCursor' = IF pluginCursor < Len(All) - 1 THEN pluginCursor + 1
                       ELSE pluginCursor
    /\ UNCHANGED <<session, disk, mEnabled, mRunning, mStarted, plug, ui, sig, last, topo>>
    /\ UNCHANGED <<modelVars, busVars, otherVars>>

\* handlePluginsInput, "enter"/" ": stop the plugin under the cursor if it is
\* running, otherwise start it; the running flag follows a success
PluginsKeyEnter(want) ==
    /\ PanelReady
    /\ LET id == All[pluginCursor + 1] IN
       IF plug[id].running
       THEN LET r == Stop(id, plug[id])
                rn == IF r.err THEN mRunning ELSE [mRunning EXCEPT ![id] = FALSE]
            IN /\ plug' = [plug EXCEPT ![id] = r.ps]
               /\ mRunning' = rn
               /\ disk' = IF r.err THEN disk ELSE SaveConfig(mEnabled, rn)
               /\ UNCHANGED <<session, topo>>
       ELSE LET r == Start(id, plug[id], want)
                rn == IF r.res = "ok" THEN [mRunning EXCEPT ![id] = TRUE] ELSE mRunning
            IN /\ plug' = [plug EXCEPT ![id] = r.ps]
               /\ mRunning' = rn
               /\ disk' = IF r.res = "ok" THEN SaveConfig(mEnabled, rn) ELSE disk
               /\ session' = [session EXCEPT
                                 !.phase = IF r.res = "panic" THEN "down" ELSE @]
               /\ topo' = IF r.res = "panic" THEN [valid |-> FALSE, set |-> {}] ELSE topo
    /\ UNCHANGED <<mEnabled, mStarted, pluginCursor, ui, sig, last>>
    /\ UNCHANGED <<modelVars, busVars, otherVars>>

\* handlePluginsInput, "e", up to the point where SetEnabled has written the
\* new flag and released the Manager's lock
KeyToggleEnabled ==
    /\ PanelReady
    /\ LET id == All[pluginCursor + 1]
           enabled == IsEnabled(mEnabled, id)
       IN /\ ui' = [pc |-> "flagged", id |-> id, en |-> ~enabled,
                    was |-> mEnabled[id] = "on", isEn |-> enabled,
                    ran |-> plug[id].running, flag |-> FALSE, started |-> FALSE,
                    err |-> FALSE, calls |-> <<>>]
          /\ mEnabled' = [mEnabled EXCEPT ![id] = IF enabled THEN "off" ELSE "on"]
    /\ UNCHANGED <<session, disk, mRunning, mStarted, plug, pluginCursor, sig, last, topo>>
    /\ UNCHANGED <<modelVars, busVars, otherVars>>

\* the rest of Manager.SetEnabled: Init and Start when the plugin went from
\* disabled to enabled in a started session, Stop when it went from enabled to
\* disabled while running, then SaveConfig unless a call failed
SetEnabled(want) ==
    /\ ui.pc = "flagged"
    /\ LET id == ui.id
           seen == [ui EXCEPT !.pc = "returned", !.flag = WasRunning(mRunning, id),
                              !.started = mStarted]
       IN IF ui.en /\ ~ui.was /\ mStarted
          THEN LET r == Start(id, PluginInit(plug[id]), want)
               IN /\ plug' = [plug EXCEPT ![id] = r.ps]
                  /\ ui' = [seen EXCEPT !.err = r.res # "ok",
                                        !.calls = <<"Init", "Start">>]
                  /\ disk' = IF r.res = "ok" THEN SaveConfig(mEnabled, mRunning) ELSE disk
          ELSE IF ~ui.en /\ ui.was /\ plug[id].running
          THEN LET r == Stop(id, plug[id])
               IN /\ plug' = [plug EXCEPT ![id] = r.ps]
                  /\ ui' = [seen EXCEPT !.err = r.err, !.calls = <<"Stop">>]
                  /\ disk' = IF r.err THEN disk ELSE SaveConfig(mEnabled, mRunning)
          ELSE /\ ui' = seen
               /\ disk' = SaveConfig(mEnabled, mRunning)
               /\ UNCHANGED plug
    /\ UNCHANGED <<session, mEnabled, mRunning, mStarted, pluginCursor, sig, last, topo>>
    /\ UNCHANGED <<modelVars, busVars, otherVars>>

\* handlePluginsInput, "e", after SetEnabled returned: a plugin that was
\* disabled without error has its running flag cleared
KeyToggleEnabledDone ==
    /\ ui.pc = "returned"
    /\ LET rn == IF ~ui.err /\ ui.isEn THEN [mRunning EXCEPT ![ui.id] = FALSE]
                 ELSE mRunning
       IN /\ mRunning' = rn
          /\ disk' = IF ~ui.err /\ ui.isEn THEN SaveConfig(mEnabled, rn) ELSE disk
    /\ ui' = UiIdle
    /\ UNCHANGED <<session, mEnabled, mStarted, plug, pluginCursor, sig, last, topo>>
    /\ UNCHANGED <<modelVars, busVars, otherVars>>

\* the emulator command exited: the goroutine waiting for it clears running
FirebaseExited ==
    /\ session.phase = "active"
    /\ plug[Firebase].running
    /\ plug' = [plug EXCEPT ![Firebase].running = FALSE]
    /\ UNCHANGED <<session, disk, mEnabled, mRunning, mStarted, pluginCursor, ui, sig,
                   last, topo>>
    /\ UNCHANGED <<modelVars, busVars, otherVars>>

\* SIGINT/SIGTERM reached the root command's goroutine: the running states are
\* recorded and saved
SigSnapshot ==
    /\ session.phase = "active"
    /\ sig.pc = "idle"
    /\ mRunning' = SnapshotRunning(plug)
    /\ disk' = SaveConfig(mEnabled, mRunning')
    /\ sig' = [sig EXCEPT !.pc = "stopall"]
    /\ topo' = [valid |-> FALSE, set |-> {}]
    /\ UNCHANGED <<session, mEnabled, mStarted, plug, pluginCursor, ui, last>>
    /\ UNCHANGED <<modelVars, busVars, otherVars>>

\* the goroutine enters StopAll: EventAppStopping (no subscriber), started = false
SigStopAll ==
    /\ session.phase = "active"
    /\ sig.pc = "stopall"
    /\ mStarted' = FALSE
    /\ sig' = [sig EXCEPT !.pc = "check", !.i = 1]
    /\ UNCHANGED <<session, disk, mEnabled, mRunning, plug, pluginCursor, ui, last, topo>>
    /\ UNCHANGED <<modelVars, busVars, otherVars>>

\* StopAll's loop in that goroutine: p.IsRunning() of the next plugin
SigCheck ==
    /\ session.phase = "active"
    /\ sig.pc = "check"
    /\ sig.i <= Len(All)
    /\ sig' = IF plug[All[sig.i]].running THEN [sig EXCEPT !.pc = "stop"]
              ELSE [sig EXCEPT !.i = @ + 1]
    /\ UNCHANGED <<session, disk, mEnabled, mRunning, mStarted, plug, pluginCursor, ui,
                   last, topo>>
    /\ UNCHANGED <<modelVars, busVars, otherVars>>

\* StopAll's loop in that goroutine: p.Stop() of the plugin just seen running
SigStop ==
    /\ session.phase = "active"
    /\ sig.pc = "stop"
    /\ LET id == All[sig.i]
           r == Stop(id, plug[id])
       IN /\ plug' = [plug EXCEPT ![id] = r.ps]
          /\ sig' = [pc |-> "check", i |-> sig.i + 1,
                     noop |-> sig.noop \/ ~plug[id].running]
    /\ UNCHANGED <<session, disk, mEnabled, mRunning, mStarted, pluginCursor, ui,
                   last, topo>>
    /\ UNCHANGED <<modelVars, busVars, otherVars>>

\* StopAll returned in that goroutine: os.Exit(0)
SigExit ==
    /\ session.phase = "active"
    /\ sig.pc = "check"
    /\ sig.i > Len(All)
    /\ session' = [session EXCEPT !.phase = "down"]
    /\ UNCHANGED <<disk, mEnabled, mRunning, mStarted, plug, pluginCursor, ui, sig,
                   last, topo>>
    /\ UNCHANGED <<modelVars, busVars, otherVars>>

ManagerNext ==
    \/ InitAll
    \/ \E w \in WantMaps : StartAutoStart(w)
    \/ gracefulShutdown
    \/ Restart
    \/ PluginsKeyUp
    \/ PluginsKeyDown
    \/ \E want \in StartWants(All[pluginCursor + 1]) : PluginsKeyEnter(want)
    \/ KeyToggleEnabled
    \/ \E want \in StartWants(ui.id) : SetEnabled(want)
    \/ KeyToggleEnabledDone
    \/ FirebaseExited
    \/ SigSnapshot
    \/ SigStopAll
    \/ SigCheck
    \/ SigExit
    \/ SigStop

ManagerSpec == ManagerInit /\ [][ManagerNext]_vars

(* ------------------------------ event bus, calls ------------------------ *)

\* an unsubscribe that takes the entry out of the slice
RemoveAt(subs, index) ==
    IF index < Len(subs)
    THEN SubSeq(subs, 1, index) \o SubSeq(subs, index + 2, Len(subs))
    ELSE subs

\* the body of the unsubscribe function: the entry becomes nil, indices stay
ClearAt(subs, index) ==
    IF index < Len(subs) THEN [subs EXCEPT ![index + 1] = 0] ELSE subs

\* EventBus.Subscribe: append the handler, return a function holding its index
Subscribe ==
    /\ Len(subscribers) < MaxSubs
    /\ LET h == Len(subscribers) + 1
       IN /\ subscribers' = Append(subscribers, h)
          /\ unsub' = [unsub EXCEPT ![h] = [idx |-> Len(subscribers') - 1, at |-> -1]]
    /\ UNCHANGED <<emit, emitted, pending, begun>>
    /\ UNCHANGED <<modelVars, managerVars, otherVars>>

\* the function Subscribe returned is called and returns; `at` remembers how
\* many Emit calls had started by then
Unsubscribe(h) ==
    /\ unsub[h].idx >= 0
    /\ unsub[h].at = -1
    /\ subscribers' = ClearAt(subscribers, unsub[h].idx)
    /\ unsub' = [unsub EXCEPT ![h].at = emitted]
    /\ UNCHANGED <<emit, emitted, pending, begun>>
    /\ UNCHANGED <<modelVars, managerVars, otherVars>>

\* EventBus.Emit, the locked part: handlers := eb.subscribers[event]
EmitSnapshot ==
    /\ emit.pc = "idle"
    /\ emitted < MaxEmits
    /\ emitted' = emitted + 1
    /\ emit' = [pc |-> "range", ev |-> emitted + 1, snap |-> subscribers]
    /\ UNCHANGED <<subscribers, unsub, pending, begun>>
    /\ UNCHANGED <<modelVars, managerVars, otherVars>>

\* EventBus.Emit, the loop, outside the lock: each element is read from the
\* array the snapshot points to, which an unsubscribe since then has or has not
\* written to (cur[j] tells which), and a goroutine is started per handler
EmitRange(cur) ==
    /\ emit.pc = "range"
    /\ LET seen(j) == IF cur[j] /\ j <= Len(subscribers) THEN subscribers[j]
                      ELSE emit.snap[j]
       IN pending' = pending \cup {[h |-> seen(j), ev |-> emit.ev] :
                                      j \in {k \in 1..Len(emit.snap) : seen(k) # 0}}
    /\ emit' = [pc |-> "idle", ev |-> 0, snap |-> <<>>]
    /\ UNCHANGED <<subscribers, unsub, emitted, begun>>
    /\ UNCHANGED <<modelVars, managerVars, otherVars>>

\* a goroutine started by Emit is scheduled: the handler begins
HandlerBegin(g) ==
    /\ g \in pending
    /\ pending' = pending \ {g}
    /\ begun' = [begun EXCEPT ![g.h] = Append(@, g.ev)]
    /\ UNCHANGED <<subscribers, unsub, emit, emitted>>
    /\ UNCHANGED <<modelVars, managerVars, otherVars>>

BusNext ==
    \/ Subscribe
    \/ \E h \in Subs : Unsubscribe(h)
    \/ EmitSnapshot
    \/ \E cur \in [1..Len(emit.snap) -> BOOLEAN] : EmitRange(cur)
    \/ \E g \in pending : HandlerBegin(g)

Init == ModelInit /\ ManagerIdle /\ BusIdle /\ ServerIdle /\ BootIdle /\ MoreIdle

BusSpec == Init /\ [][BusNext]_vars

Next ==
    \/ startBuildCommand
    \/ \E n \in Pids : runCmdWithPipesFail(n)
    \/ \E n \in Pids : runCmdWithPipesStart(n)
    \/ \E n \in Pids, s \in Streams, raw \in RawLines : readerScan(n, s, raw)
    \/ \E n \in Pids, code \in {"zero", "nonzero"} : cmdWait(n, code)
    \/ \E n \in Pids : waitForOutput(n)
    \/ \E n \in Pids : UpdateProcessStarted(n)
    \/ \E n \in Pids : UpdateProcessOutput(n)
    \/ \E n \in Pids : UpdateProcessFinished(n)
    \/ KeyKill
    \/ KeyTab
    \/ KeyLeft
    \/ KeyRight
    \/ UpdateErrMsg
    \/ \E pl \in PluginIds, stopped \in BOOLEAN, error \in BOOLEAN :
          UpdatePluginLog(pl, stopped, error)
    \/ \E id \in KillIds : CtxKillProcess(id)
    \/ CtxLog

Spec == Init /\ [][Next]_vars

(* ----------------------- protocol servers, serving ---------------------- *)

\* the catalog each server builds in its handleToolsList
Catalog(srv) ==
    IF srv = Standalone
    THEN {"list_projects", "list_devices", RunOnDevice, "sync", "build", "open_ide",
          "get_project", "get_debug_actions", RunDebugActionTool}
    ELSE {"list_devices", RunOnDevice, "run_web", "sync", "build", "open_ide",
          "get_processes", "get_logs", "get_all_logs", KillProcessTool,
          "get_debug_actions", RunDebugActionTool, "get_settings", "set_setting",
          "get_project"}

\* the settings files explored: MCP on or off, and the run_debug_action entry
\* of MCPTools absent, true or false
SettingsSet == [MCPEnabled : BOOLEAN, MCPTools : [{RunDebugActionTool} -> Flags]]

\* Settings.IsMCPToolEnabled
IsMCPToolEnabled(s, tool) ==
    IF ~s.MCPEnabled THEN FALSE
    ELSE IF tool \in DOMAIN s.MCPTools /\ s.MCPTools[tool] # "unset"
         THEN s.MCPTools[tool] = "on"
    ELSE TRUE

\* JSON-RPC error codes the servers use
ParseError == -32700
MethodNotFound == -32601
\* a missing argument refused under the code of an unknown method
InvalidParamsAsNotFound == MethodNotFound
InvalidParams == -32602
ToolFailed == -32000

\* the debug actions RunAction knows (two of them) and the text of its default case
DebugActions == {"npm-cache", "full-clean"}
RunAction(id) ==
    IF id \in DebugActions
    THEN [Success |-> TRUE, Message |-> "done"]
    ELSE [Success |-> FALSE, Message |-> "Unknown action: " \o id]

Result(req) ==
    [id |-> req.id, seq |-> req.id, kind |-> "result", code |-> 0, message |-> "",
     tools |-> {}]
Error(req, code, message) ==
    [id |-> req.id, seq |-> req.id, kind |-> "error", code |-> code,
     message |-> message, tools |-> {}]

\* what one request does: the response and the tool bodies it ran
Outcome(resp, ran) == [resp |-> resp, ran |-> ran]
\* one tool body run for a request
Ran(req, call) == <<[tool |-> req.name, call |-> call]>>

\* handleToolsList: the standalone server keeps the tools IsMCPToolEnabled
\* accepts, the plugin server returns its whole catalog
handleToolsList(srv, s) ==
    IF srv = Standalone
    THEN {t \in Catalog(srv) : IsMCPToolEnabled(s, t)}
    ELSE Catalog(srv)

\* handleToolsCall of root.go
StandaloneToolsCall(s, req) ==
    IF ~IsMCPToolEnabled(s, req.name)
    THEN Outcome(Error(req, MethodNotFound,
                       "Tool '" \o req.name \o "' is disabled. Enable it in lazycap settings."),
                 <<>>)
    ELSE CASE req.name = RunOnDevice ->
                IF req.arg = ""
                THEN Outcome(Error(req, InvalidParams, "deviceId and platform required"), <<>>)
                ELSE Outcome(Result(req), Ran(req, "cap.RunAt"))
           [] req.name = RunDebugActionTool ->
                IF req.arg = ""
                THEN Outcome(Error(req, InvalidParams, "actionId required"), <<>>)
                ELSE LET result == RunAction(req.arg)
                         ran == IF req.arg \in DebugActions THEN Ran(req, "debug.RunAction")
                                ELSE <<>>
                     IN IF ~result.Success
                        THEN Outcome(Error(req, ToolFailed, result.Message), ran)
                        ELSE Outcome([Result(req) EXCEPT !.message = result.Message], ran)
           [] OTHER -> Outcome(Error(req, MethodNotFound, "Unknown tool: " \o req.name),
                               <<>>)

\* MCPPlugin.handleToolsCall with toolRunOnDevice, toolRunDebugAction and
\* toolKillProcess; toJSON(result) carries the message of the debug.Result
PluginToolsCall(s, req) ==
    CASE req.name = RunOnDevice ->
            IF req.arg = ""
            THEN Outcome(Error(req, InvalidParams, "deviceId required"), <<>>)
            ELSE Outcome(Result(req), Ran(req, "ctx.RunOnDevice"))
      [] req.name = RunDebugActionTool ->
            IF req.arg = ""
            THEN Outcome(Error(req, InvalidParams, "actionId required"), <<>>)
            ELSE Outcome([Result(req) EXCEPT !.message = RunAction(req.arg).Message],
                         IF req.arg \in DebugActions THEN Ran(req, "debug.RunAction")
                         ELSE <<>>)
      [] req.name = KillProcessTool ->
            IF req.arg = ""
            THEN Outcome(Error(req, InvalidParams, "processId required"), <<>>)
            ELSE Outcome(Result(req), Ran(req, "ctx.KillProcess"))
      [] OTHER -> Outcome(Error(req, MethodNotFound, "Unknown tool: " \o req.name), <<>>)

\* handleMCPRequest of root.go and MCPPlugin.handleRequest
handleRequest(srv, s, req) ==
    IF req.kind # "json"
    THEN Outcome([Error(req, ParseError, "Parse error") EXCEPT !.id = 0], <<>>)
    ELSE CASE req.method = "initialize" -> Outcome(Result(req), <<>>)
           [] req.method = "tools/list" ->
                Outcome([Result(req) EXCEPT !.tools = handleToolsList(srv, s)], <<>>)
           [] req.method = "tools/call" ->
                LET o == IF srv = Standalone THEN StandaloneToolsCall(s, req)
                         ELSE PluginToolsCall(s, req)
                IN o
           [] OTHER ->
                Outcome(Error(req, MethodNotFound,
                              IF srv = Standalone
                              THEN "Method not found: " \o req.method
                              ELSE "Method not found"), <<>>)

\* the lines a client writes: empty, longer than the scanner's token limit,
\* not JSON, or a request
Line(kind, method, name, arg) ==
    [kind |-> kind, id |-> 0, method |-> method, name |-> name, arg |-> arg]
Lines ==
    {Line("empty", "", "", ""), Line("long", "", "", ""), Line("garbage", "", "", ""),
     Line("json", "bogus", "", ""), Line("json", "initialize", "", ""),
     Line("json", "tools/list", "", "")}
    \cup {Line("json", "tools/call", RunOnDevice, a) : a \in {"", "sim-1"}}
    \cup {Line("json", "tools/call", RunDebugActionTool, a) :
            a \in {"", "npm-cache", "unknown"}}
    \cup {Line("json", "tools/call", KillProcessTool, "proc-1"),
          Line("json", "tools/call", "nope", "")}

\* a stream of one of the two servers, opened under some settings file
ServerInit ==
    /\ ModelInit
    /\ ManagerIdle
    /\ BusIdle
    /\ BootIdle
    /\ MoreIdle
    /\ server \in Servers
    /\ mcpSettings \in SettingsSet
    /\ stdin = <<>>
    /\ conn = ConnIdle
    /\ stdout = <<>>
    /\ effects = <<>>

\* lines written on the stream so far
Written == conn.n + Len(stdin)

\* the client writes its next line; the request id is the line's number
ClientWrite(line) ==
    /\ conn.pc # "closed"
    /\ Written < MaxRequests
    /\ stdin' = Append(stdin, [line EXCEPT !.id = Written + 1])
    /\ UNCHANGED <<server, mcpSettings, conn, stdout, effects>>
    /\ UNCHANGED <<modelVars, managerVars, busVars, bootVars, moreVars>>

\* a loop that reads ahead of its own response
CanScanAhead(c) == c.pc \in {"scan", "encode"}
\* the loop is at scanner.Scan()
CanScan(c) == c.pc = "scan"

\* scanner.Scan(): a line over the token limit ends the loop (bufio.ErrTooLong),
\* runMCPServer skips an empty line, any other line goes to the handler
Scan ==
    /\ CanScan(conn)
    /\ stdin # <<>>
    /\ LET line == Head(stdin)
       IN /\ stdin' = Tail(stdin)
          /\ conn' = CASE line.kind = "long" ->
                            [conn EXCEPT !.pc = "closed", !.n = @ + 1]
                       [] line.kind = "empty" /\ server = Standalone ->
                            [conn EXCEPT !.n = @ + 1]
                       [] OTHER ->
                            [conn EXCEPT !.pc = "handle", !.line = line, !.n = @ + 1,
                                         !.served = Append(@, line)]
    /\ UNCHANGED <<server, mcpSettings, stdout, effects>>
    /\ UNCHANGED <<modelVars, managerVars, busVars, bootVars, moreVars>>

\* response := handleRequest(line)
Handle ==
    /\ conn.pc = "handle"
    /\ LET o == handleRequest(server, mcpSettings, conn.line)
       IN /\ conn' = [conn EXCEPT !.pc = "encode", !.resp = o.resp]
          /\ effects' = effects \o o.ran
    /\ UNCHANGED <<server, mcpSettings, stdin, stdout>>
    /\ UNCHANGED <<modelVars, managerVars, busVars, bootVars, moreVars>>

\* _ = encoder.Encode(response)
Encode ==
    /\ conn.pc = "encode"
    /\ stdout' = Append(stdout, conn.resp)
    /\ conn' = [conn EXCEPT !.pc = "scan", !.line = NoLineRead, !.resp = NoResponse]
    /\ UNCHANGED <<server, mcpSettings, stdin, effects>>
    /\ UNCHANGED <<modelVars, managerVars, busVars, bootVars, moreVars>>

ServerNext ==
    \/ \E line \in Lines : ClientWrite(line)
    \/ Scan
    \/ Handle
    \/ Encode

ServerSpec == ServerInit /\ [][ServerNext]_vars

(* ------------------------- device boot, the wait ------------------------ *)

\* the polls bootDevice makes before it gives up
BootPolls == 60

\* what cap.BootDevice returns: nil or the error of the boot command
BootErrors == {"nil", "exit status 1", "unknown platform: web"}

BootLine(text) == LogLine(text, SystemID, "", 0)

\* a report that leaves the error aside
BootFailedPlain(err) == "Boot failed"
\* fmt.Sprintf("Boot failed: %v", msg.err)
BootFailedLine(err) == "Boot failed: " \o err

\* runAction("run") on an offline device: m.addLog("Booting ..."), a
\* "Boot <name>" process with its "Waiting for simulator..." line, and the
\* bootDevice tea.Cmd is handed to the runtime
runActionBoot(d, liveReload) ==
    /\ boot.pc = "idle"
    /\ ~devOnline[d]
    /\ nextProcessID < MaxProcs
    /\ LET logged == addLog(processes, BootLine("Booting " \o d \o "..."))
           made == createProcess(logged, nextProcessID)
       IN /\ processes' = [made EXCEPT ![Len(made)] =
                               AddLog(@, BootLine("Waiting for simulator..."))]
          /\ selectedProcess' = Len(made) - 1
    /\ nextProcessID' = nextProcessID + 1
    /\ boot' = [pc |-> "boot", dev |-> d, liveReload |-> liveReload, i |-> 0,
                err |-> "nil"]
    /\ UNCHANGED <<focus, outputChans, ctxProcesses, chans, os, tea, clock, events,
                   killErr, devOnline>>
    /\ UNCHANGED <<managerVars, busVars, serverVars, moreVars>>

\* bootDevice, the call of cap.BootDevice: an error ends the command at once
bootDeviceCall(err) ==
    /\ boot.pc = "boot"
    /\ boot' = IF err # "nil" THEN [boot EXCEPT !.pc = "msg", !.err = err]
               ELSE [boot EXCEPT !.pc = "poll"]
    /\ UNCHANGED <<modelVars, managerVars, busVars, serverVars, devOnline, moreVars>>

\* bootDevice, one turn of the loop: sleep a second, ask cap.IsDeviceBooted;
\* the command ends with err "timeout" when the last turn finds no device
bootDevicePoll(booted) ==
    /\ boot.pc = "poll"
    /\ boot.i < BootPolls
    /\ boot' = IF booted THEN [boot EXCEPT !.pc = "msg", !.i = @ + 1]
               ELSE IF boot.i + 1 = BootPolls
                    THEN [boot EXCEPT !.pc = "msg", !.i = @ + 1, !.err = "timeout"]
               ELSE [boot EXCEPT !.i = @ + 1]
    /\ UNCHANGED <<modelVars, managerVars, busVars, serverVars, devOnline, moreVars>>

\* case deviceBootedMsg: an error is logged as "Boot failed: ..."; otherwise
\* the device is marked online and startRunCommand creates the run process
UpdateDeviceBooted ==
    /\ boot.pc = "msg"
    /\ boot' = [boot EXCEPT !.pc = "done"]
    /\ IF boot.err # "nil"
       THEN /\ processes' = addLog(processes, BootLine(BootFailedLine(boot.err)))
            /\ UNCHANGED <<selectedProcess, nextProcessID, tea, devOnline>>
       ELSE /\ devOnline' = [devOnline EXCEPT ![boot.dev] = TRUE]
            /\ processes' = createProcess(processes, nextProcessID)
            /\ selectedProcess' = Len(processes') - 1
            /\ nextProcessID' = nextProcessID + 1
            /\ tea' = [tea EXCEPT ![nextProcessID].pc = "cmd"]
    /\ UNCHANGED <<focus, outputChans, ctxProcesses, chans, os, clock, events, killErr>>
    /\ UNCHANGED <<managerVars, busVars, serverVars, moreVars>>

BootNext ==
    \/ \E d \in Devices, liveReload \in BOOLEAN : runActionBoot(d, liveReload)
    \/ \E err \in BootErrors : bootDeviceCall(err)
    \/ \E booted \in BOOLEAN : bootDevicePoll(booted)
    \/ UpdateDeviceBooted

BootSpec == Init /\ [][BootNext]_vars

\* the runtime runs every command it was handed and delivers its message
BootLiveSpec == BootSpec /\ WF_vars(BootNext)

(* ------------------------------ the quit key ---------------------------- *)

\* seconds within which a second q quits
QuitWindow == 3

Views == {"main", "debug", "plugins"}

\* a second q quits whenever a first one was pressed
ConfirmedEver(q) == q.confirmQuit
\* m.confirmQuit && time.Since(m.quitTime) < 3*time.Second
Confirmed(q) == q.confirmQuit /\ q.now - q.quitTime < QuitWindow

\* a second passes
Tick ==
    /\ ~quit.quitting
    /\ quit.now < MaxTime
    /\ quit' = [quit EXCEPT !.now = @ + 1]
    /\ UNCHANGED notQuit

\* case tea.KeyMsg, the q key, in Update, handleDebugInput and
\* handlePluginsInput alike: gracefulShutdown and tea.Quit when confirmed,
\* otherwise the press is remembered with its time
KeyQ ==
    /\ ~quit.quitting
    /\ IF Confirmed(quit)
       THEN /\ quit' = [quit EXCEPT !.quitting = TRUE, !.prevQ = quit.lastQ,
                                    !.lastQ = quit.now]
            /\ Shutdown
       ELSE /\ quit' = [quit EXCEPT !.confirmQuit = TRUE, !.quitTime = quit.now,
                                    !.prevQ = quit.lastQ, !.lastQ = quit.now]
            /\ UNCHANGED <<modelVars, managerVars, busVars>>
    /\ UNCHANGED <<serverVars, bootVars, lk, pipe, fb, mcpd>>

\* case tea.KeyMsg, a key other than q: the confirmation is dropped once it
\* is older than the window; d and P open a panel, esc closes it
KeyOther(view) ==
    /\ ~quit.quitting
    /\ view = quit.view \/ view = "main" \/ quit.view = "main"
    /\ quit' = [quit EXCEPT
                  !.confirmQuit = IF @ /\ quit.now - quit.quitTime > QuitWindow
                                  THEN FALSE ELSE @,
                  !.view = view]
    /\ UNCHANGED notQuit

QuitNext ==
    \/ Tick
    \/ KeyQ
    \/ \E view \in Views : KeyOther(view)

QuitSpec == Init /\ [][QuitNext]_vars

(* -------------------- Manager.mu and the calls that take it ------------- *)

\* the three mutators and the map each one writes
Field(op) ==
    CASE op = "SetEnabled" -> "enabled"
      [] op = "SetRunning" -> "running"
      [] op = "SetPluginSetting" -> "settings"
Mutators == {"SetEnabled", "SetRunning", "SetPluginSetting"}

\* a goroutine calls SetEnabled, SetRunning or SetPluginSetting
CallBegin(c, op, val) ==
    /\ lk.g[c].pc = "idle"
    /\ lk.calls < MaxCalls
    /\ lk' = [lk EXCEPT !.g[c] = [pc |-> "lock", op |-> op, val |-> val, data |-> <<>>],
                        !.calls = @ + 1]
    /\ UNCHANGED notLk

\* m.mu.Lock()
Acquire(c) ==
    /\ lk.g[c].pc = "lock"
    /\ lk.writer = 0
    /\ lk.readers = {}
    /\ lk' = [lk EXCEPT !.writer = c, !.g[c].pc = "write"]
    /\ UNCHANGED notLk

\* the write of the map entry, then m.mu.Unlock()
Mutate(c) ==
    /\ lk.g[c].pc = "write"
    /\ lk' = [lk EXCEPT !.mem[Field(lk.g[c].op)] = lk.g[c].val,
                        !.writer = 0,
                        !.bare = IF lk.writer = c THEN @ ELSE @ \cup {Field(lk.g[c].op)},
                        !.g[c].pc = IF lk.g[c].op = "SetEnabled" THEN "work" ELSE "save"]
    /\ UNCHANGED notLk

\* SetEnabled after its Unlock: m.started and m.ctx are read, the plugin is
\* started or stopped; an error returns before SaveConfig
Work(c, ok) ==
    /\ lk.g[c].pc = "work"
    /\ lk' = [lk EXCEPT !.bare = IF c \in lk.readers \/ lk.writer = c THEN @
                                 ELSE @ \cup {"started", "ctx"},
                        !.g[c] = IF ok THEN [@ EXCEPT !.pc = "save"] ELSE NoCallOn]
    /\ UNCHANGED notLk

\* SaveConfig: RLock, the three map references are copied, RUnlock
SnapshotRefs(c) ==
    /\ lk.g[c].pc = "save"
    /\ lk.writer = 0
    /\ lk' = [lk EXCEPT !.g[c].pc = "marshal"]
    /\ UNCHANGED notLk

\* SaveConfig: json.MarshalIndent ranges over the maps themselves
Marshal(c) ==
    /\ lk.g[c].pc = "marshal"
    /\ lk' = [lk EXCEPT !.g[c].pc = "file", !.g[c].data = lk.mem,
                        !.bare = IF c \in lk.readers \/ lk.writer = c THEN @
                                 ELSE @ \cup {"enabled", "running", "settings"}]
    /\ UNCHANGED notLk

\* SaveConfig: os.WriteFile, and the call returns
WriteFile(c) ==
    /\ lk.g[c].pc = "file"
    /\ lk' = [lk EXCEPT !.file = lk.g[c].data, !.g[c] = NoCallOn]
    /\ UNCHANGED notLk

\* a plugin goroutine calls Context.GetProcesses: the callback ranges over
\* Model.processes, which no lock guards
CallbackRead ==
    /\ "processes" \notin lk.bare
    /\ lk' = [lk EXCEPT !.bare = @ \cup {"processes"}]
    /\ UNCHANGED notLk

LockNext ==
    \/ \E c \in Callers, op \in Mutators, val \in BOOLEAN : CallBegin(c, op, val)
    \/ \E c \in Callers : Acquire(c)
    \/ \E c \in Callers : Mutate(c)
    \/ \E c \in Callers, ok \in BOOLEAN : Work(c, ok)
    \/ \E c \in Callers : SnapshotRefs(c)
    \/ \E c \in Callers : Marshal(c)
    \/ \E c \in Callers : WriteFile(c)
    \/ CallbackRead

LockSpec == Init /\ [][LockNext]_vars

(* --------------- runCmdWithPipes, one step per goroutine step ----------- *)

\* scanner.Scan() of a reader: a line the command wrote while the pipe is
\* open, or the end of the pipe once the command exited or Wait closed it
PipeScan(s) ==
    /\ pipe.rd[s] = "scan"
    /\ \/ /\ ~pipe.exited
          /\ pipe.written < MaxLines
          /\ pipe' = [pipe EXCEPT !.rd[s] = "send", !.written = @ + 1]
       \/ /\ pipe.exited
          /\ pipe' = [pipe EXCEPT !.rd[s] = "done"]
    /\ UNCHANGED notPipe

\* select { case ch <- scanner.Text(): default: } of a reader; a send on a
\* closed channel panics
PipeSend(s) ==
    /\ pipe.rd[s] = "send"
    /\ pipe' = IF pipe.closed THEN [pipe EXCEPT !.rd[s] = "done", !.panic = TRUE]
               ELSE [pipe EXCEPT !.rd[s] = "scan", !.buf = TrySend(@, s)]
    /\ UNCHANGED notPipe

\* the command exits
PipeExit ==
    /\ ~pipe.exited
    /\ pipe' = [pipe EXCEPT !.exited = TRUE]
    /\ UNCHANGED notPipe

\* the completion watcher: _ = cmd.Wait(), then close(ch)
WatcherNext(w) ==
    CASE w = "wait" -> "close"
      [] w = "close" -> "closed"
      [] OTHER -> w

PipeWatch ==
    /\ pipe.watcher # "closed"
    /\ pipe.watcher = "wait" => pipe.exited
    /\ pipe' = [pipe EXCEPT !.watcher = WatcherNext(@),
                            !.closed = WatcherNext(pipe.watcher) = "closed"]
    /\ UNCHANGED notPipe

\* waitForOutput takes a line from the channel
PipeReceive ==
    /\ pipe.buf # <<>>
    /\ pipe' = [pipe EXCEPT !.buf = Tail(@)]
    /\ UNCHANGED notPipe

PipeNext ==
    \/ \E s \in Streams : PipeScan(s)
    \/ \E s \in Streams : PipeSend(s)
    \/ PipeExit
    \/ PipeWatch
    \/ PipeReceive

PipeSpec == Init /\ [][PipeNext]_vars

(* ------------------- Firebase plugin, emulator process ------------------- *)

\* Start up to the launch: nothing to do when running; otherwise running is
\* set under the lock and startEmulators is entered
FirebaseStart ==
    /\ ~fb.panic
    /\ fb.pc = "idle"
    /\ fb.launches < MaxLaunches
    /\ IF fb.running
         THEN fb' = fb
         ELSE fb' = [fb EXCEPT !.running = TRUE, !.pc = "launch",
                               !.launches = @ + 1]
    /\ UNCHANGED notFb

\* the watcher of one launch after its cmd.Wait() returned: it clears the
\* plugin's flag and handle
WatcherClears(f, i) ==
    [f EXCEPT !.running = FALSE, !.cmd = 0, !.watch = @ \ {i}]

\* startEmulators: cmd.Start() fails and Start resets the flag, or the
\* process runs, p.cmd is set and the exit watcher is started
startEmulators(ok) ==
    /\ ~fb.panic
    /\ fb.pc = "launch"
    /\ IF ok
         THEN fb' = [fb EXCEPT !.cmd = fb.launches, !.pc = "idle",
                               !.alive = @ \cup {fb.launches},
                               !.watch = @ \cup {fb.launches},
                               !.cur = fb.launches, !.stopped = FALSE]
         ELSE fb' = [fb EXCEPT !.running = FALSE, !.pc = "idle"]
    /\ UNCHANGED notFb

\* Stop, one critical section: nothing when not running; otherwise the
\* flag is cleared and, when a handle is set, the process is interrupted
\* and a goroutine is started that will call p.cmd.Wait()
FirebaseStop ==
    /\ ~fb.panic
    /\ fb.pc = "idle"
    /\ fb.running
    /\ fb' = [fb EXCEPT !.running = FALSE, !.stopped = TRUE,
                        !.waits = IF fb.cmd # 0 THEN @ + 1 ELSE @]
    /\ UNCHANGED notFb

\* an emulator process exits, interrupted or on its own
EmulatorExit(i) ==
    /\ ~fb.panic
    /\ i \in fb.alive
    /\ fb' = [fb EXCEPT !.alive = @ \ {i}]
    /\ UNCHANGED notFb

\* the exit watcher of launch i, once its process has exited
ExitWatcher(i) ==
    /\ ~fb.panic
    /\ i \in fb.watch
    /\ i \notin fb.alive
    /\ fb' = WatcherClears(fb, i)
    /\ UNCHANGED notFb

\* the goroutine started by Stop reads the field p.cmd when it runs and
\* calls Wait on it: a nil handle is a nil dereference
StopWait ==
    /\ ~fb.panic
    /\ fb.waits > 0
    /\ fb' = [fb EXCEPT !.waits = @ - 1, !.panic = (fb.cmd = 0)]
    /\ UNCHANGED notFb

FbNext ==
    \/ FirebaseStart
    \/ \E ok \in BOOLEAN : startEmulators(ok)
    \/ FirebaseStop
    \/ \E i \in 1..MaxLaunches : EmulatorExit(i)
    \/ \E i \in 1..MaxLaunches : ExitWatcher(i)
    \/ StopWait

FbSpec == Init /\ [][FbNext]_vars

(* --------------------- MCP plugin, TCP listener -------------------------- *)

\* Start, first critical section: return when running, otherwise set the
\* flag and make a new stop channel
MCPStart(c) ==
    /\ mcpd.g[c].pc = "idle"
    /\ mcpd.calls < MaxCalls
    /\ IF mcpd.running
         THEN mcpd' = [mcpd EXCEPT !.calls = @ + 1]
         ELSE mcpd' = [mcpd EXCEPT !.calls = @ + 1, !.running = TRUE,
                                   !.chans = @ + 1, !.stopCh = mcpd.chans + 1,
                                   !.g[c] = [pc |-> "listen",
                                             ch |-> mcpd.chans + 1, l |-> 0]]
    /\ UNCHANGED notMcpd

\* net.Listen on the port: it can succeed only while no listener of the
\* plugin is bound to it, and it can fail whenever another program holds
\* the port
Listen(c, ok) ==
    /\ mcpd.g[c].pc = "listen"
    /\ ok => mcpd.open = {}
    /\ IF ok
         THEN mcpd' = [mcpd EXCEPT !.listeners = @ + 1,
                                   !.open = @ \cup {mcpd.listeners + 1},
                                   !.g[c].pc = "store",
                                   !.g[c].l = mcpd.listeners + 1]
         ELSE mcpd' = [mcpd EXCEPT !.g[c].pc = "reset"]
    /\ UNCHANGED notMcpd

\* startTCP after Listen: p.listener is set in a critical section of its
\* own and the accept loop is started; Start returns
startTCP(c) ==
    /\ mcpd.g[c].pc = "store"
    /\ mcpd' = [mcpd EXCEPT !.listener = mcpd.g[c].l,
                            !.loop[mcpd.g[c].l] =
                                [st |-> "run", from |-> mcpd.g[c].ch],
                            !.g[c] = [pc |-> "idle", ch |-> 0, l |-> 0]]
    /\ UNCHANGED notMcpd

\* Start after a failed Listen: the flag is reset and the error returned
StartFailed(c) ==
    /\ mcpd.g[c].pc = "reset"
    /\ mcpd' = [mcpd EXCEPT !.running = FALSE,
                            !.g[c] = [pc |-> "idle", ch |-> 0, l |-> 0]]
    /\ UNCHANGED notMcpd

\* Stop, one critical section
MCPStop(c) ==
    /\ mcpd.g[c].pc = "idle"
    /\ mcpd.calls < MaxCalls
    /\ IF ~mcpd.running
         THEN mcpd' = [mcpd EXCEPT !.calls = @ + 1]
         ELSE mcpd' = [mcpd EXCEPT !.calls = @ + 1, !.running = FALSE,
                                   !.closedCh = @ \cup {mcpd.stopCh},
                                   !.open = @ \ {mcpd.listener},
                                   !.listener = 0]
    /\ UNCHANGED notMcpd

\* acceptConnections of listener l when Accept fails because the listener is
\* closed: the loop reads the field p.stopCh without the lock and sees
\* channel ch; it returns when that channel is closed and tries again
\* otherwise
acceptConnections(l, ch) ==
    /\ mcpd.loop[l].st = "run"
    /\ l \notin mcpd.open
    /\ ch \in mcpd.loop[l].from .. mcpd.stopCh
    /\ IF ch \in mcpd.closedCh
         THEN mcpd' = [mcpd EXCEPT !.loop[l].st = "done"]
         ELSE mcpd' = mcpd
    /\ UNCHANGED notMcpd

\* the loop sees the channel that p.stopCh holds now
AcceptFails(l) == acceptConnections(l, mcpd.stopCh)

McpNext ==
    \/ \E c \in Callers : MCPStart(c)
    \/ \E c \in Callers, ok \in BOOLEAN : Listen(c, ok)
    \/ \E c \in Callers : startTCP(c)
    \/ \E c \in Callers : StartFailed(c)
    \/ \E c \in Callers : MCPStop(c)
    \/ \E l \in 1..MaxCalls, ch \in 0..MaxCalls : acceptConnections(l, ch)

McpSpec == Init /\ [][McpNext]_vars

\* the accept loops are scheduled: a loop whose Accept keeps failing tests
\* the stop channel again and again
McpLiveSpec == McpSpec /\ \A l \in 1..MaxCalls : WF_vars(AcceptFails(l))

(* ------------------------------ claims --------------------------------- *)

IsUser(p) == p.ID.k = "p"
IdxOf(n) == Find(processes, UserID(n))
HasLine(p, tag) == \E j \in 1..Len(p.Logs) : p.Logs[j].tag = tag /\ p.Logs[j].src = p.ID
OutLines(p) == {j \in 1..Len(p.Logs) : p.Logs[j].tag = "out" /\ p.Logs[j].src = p.ID}
\* the kill key is pressed while record i is the selected one
KeyKillOn(i) == KeyKill /\ getSelectedProcess = i

\* C1: once a process of the table is Succeeded, Failed or Cancelled, no later
\* step changes its status.
C1_StatusMonotonic ==
    [][\A i \in 1..Len(processes) :
          processes[i].Status \in Terminal
              => processes'[i].Status = processes[i].Status]_vars

\* C2: a command that exits on its own ends Succeeded, with the success marker,
\* exactly when it exited with code 0, and ends Failed with an error line when
\* it exited with another code.
C2_ExitCodeDecidesStatus ==
    \A n \in Pids :
        LET i == IdxOf(n) IN
        (i # 0 /\ os[n].exit \in {"zero", "nonzero"}
               /\ processes[i].Status \in {ProcessSuccess, ProcessFailed})
            => /\ processes[i].Status = ProcessSuccess <=> os[n].exit = "zero"
               /\ processes[i].Status = ProcessSuccess => HasLine(processes[i], "done")
               /\ processes[i].Status = ProcessFailed => HasLine(processes[i], "error")

\* C3: a cancel request for a Running process with a live handle, by the kill
\* key or by Context.KillProcess, leaves it Cancelled with an end time and the
\* "Killed by user" line.
C3_CancelLeavesCancelled ==
    [][\A n \in Pids :
          LET i == IdxOf(n) IN
          (i # 0 /\ processes[i].Status = ProcessRunning /\ processes[i].Cmd
                 /\ (KeyKillOn(i) \/ CtxKillProcess(UserID(n))))
              => /\ processes'[i].Status = ProcessCancelled
                 /\ processes'[i].EndTime # 0
                 /\ HasLine(processes'[i], "killed")]_vars

\* C4: a cancel of a process that is already Succeeded, Failed or Cancelled
\* changes nothing in the table and returns no error, by the kill key and by
\* Context.KillProcess alike.
C4_CancelTerminalIsNoOp ==
    [][\A n \in Pids :
          LET i == IdxOf(n) IN
          (i # 0 /\ processes[i].Status \in Terminal)
              => /\ KeyKillOn(i) => processes' = processes
                 /\ CtxKillProcess(UserID(n))
                        => (processes' = processes /\ killErr' # "error")]_vars

\* C5: when a command is over and its output has been consumed, every non-blank
\* line it wrote is in its process's log exactly once.
C5_EveryLineLoggedOnce ==
    \A n \in Pids :
        LET i == IdxOf(n) IN
        (i # 0 /\ os[n].state = "waited" /\ tea[n].pc = "done"
               /\ Len(processes[i].Logs) < LogCap)
            => Cardinality(OutLines(processes[i])) = os[n].text

\* C6: the log of a user-started process holds only lines of that process: no
\* output line of another id, no system or plugin message.
C6_OnlyOwnLines ==
    \A i \in 1..Len(processes) :
        IsUser(processes[i])
            => \A j \in 1..Len(processes[i].Logs) :
                   processes[i].Logs[j].src = processes[i].ID

C8_HandleOnlyWhileRunning ==
    \A i \in 1..Len(processes) :
        processes[i].Cmd => processes[i].Status = ProcessRunning

\* the lines of a log that belong to the process itself
OwnLines(p) == SelectSeq(p.Logs, LAMBDA l : l.src = p.ID)

\* C9: once a user-started process is Succeeded, Failed or Cancelled, no line
\* of its own is added to its log and its end time does not change.
C9_TerminalRecordIsFrozen ==
    [][\A i \in 1..Len(processes) :
          (IsUser(processes[i]) /\ processes[i].Status \in Terminal)
              => /\ OwnLines(processes'[i]) = OwnLines(processes[i])
                 /\ processes'[i].EndTime = processes[i].EndTime]_vars

\* the stored lines of one stream appear in the order they were written
Ordered(p) ==
    \A a, b \in OutLines(p) :
        (a < b /\ p.Logs[a].stream = p.Logs[b].stream) => p.Logs[a].n < p.Logs[b].n

\* a step leaves a log as it is or appends one line to it, dropping lines only
\* from the front and only beyond the cap
Stable(old, new) ==
    \/ new = old
    \/ /\ Len(new) > 0
       /\ new = TrimFront(Append(old, new[Len(new)]))

\* C10: two stored lines of the same stream appear in the order they were
\* written, and no step reorders or changes the lines already stored.
C10_OrderPreserved ==
    /\ [](\A i \in 1..Len(processes) : Ordered(processes[i]))
    /\ [][\A i \in 1..Len(processes) :
             Stable(processes[i].Logs, processes'[i].Logs)]_vars

C10_Witness ==
    \E i \in 1..Len(processes) :
        \E a, b \in OutLines(processes[i]) :
            /\ a < b
            /\ processes[i].Logs[a].stream = processes[i].Logs[b].stream
            /\ \E c \in OutLines(processes[i]) :
                   processes[i].Logs[c].stream # processes[i].Logs[a].stream

\* C11: while the panel is idle in a running session, every plugin that is
\* running is enabled.
C11_RunningImpliesEnabled ==
    (session.phase = "active" /\ ui.pc = "idle")
        => \A p \in Plugins : plug[p].running => IsEnabled(mEnabled, p)

\* C12: when SetEnabled(id, false) has returned without error for a plugin that
\* IsEnabled reported as enabled, the plugin is not running.
C12_DisabledIsStopped ==
    (ui.pc = "returned" /\ ~ui.en /\ ui.isEn /\ ~ui.err) => ~plug[ui.id].running

\* C13: while SetEnabled(id, false) is at work on a running plugin, the plugin
\* is never both reported disabled by IsEnabled and still running.
C13_StoppedBeforeDisabled ==
    (ui.pc = "flagged" /\ ~ui.en /\ ui.ran)
        => ~(~IsEnabled(mEnabled, ui.id) /\ plug[ui.id].running)

\* C14: when SetEnabled(id, true) has taken a plugin from disabled to enabled
\* in a started session, it called Init and then Start if the plugin's running
\* flag was set, and did not call Start if the flag was clear.
C14_EnableStartsOnlyIfFlagged ==
    (ui.pc = "returned" /\ ui.en /\ ~ui.was /\ ui.started)
        => IF ui.flag THEN ui.calls = <<"Init", "Start">>
           ELSE \A k \in 1..Len(ui.calls) : ui.calls[k] # "Start"

\* C15: when SetEnabled(id, false) has returned for a plugin that was enabled
\* and running, the plugin's running flag is clear.
C15_DisableClearsRunningFlag ==
    (ui.pc = "returned" /\ ~ui.en /\ ui.was /\ ui.ran)
        => ~WasRunning(mRunning, ui.id)

LastOf(failed) ==
    All[CHOOSE i \in 1..Len(All) :
            All[i] \in failed /\ \A j \in 1..Len(All) : All[j] \in failed => j <= i]

C18_StopIdempotent ==
    \A p \in Plugins :
        /\ ~plug[p].running => Stop(p, plug[p]) = [ps |-> plug[p], err |-> FALSE]
        /\ plug[p].closes <= 1

C18_Witness ==
    /\ sig.noop
    /\ \E p \in Plugins : plug[p].closes = 1 /\ ~plug[p].running

\* C19: a handler whose unsubscribe function has returned is started for no
\* event whose Emit call began after that.
C19_NoEventAfterUnsubscribe ==
    \A h \in Subs :
        unsub[h].at >= 0
            => /\ \A g \in pending : g.h = h => g.ev <= unsub[h].at
               /\ \A k \in 1..Len(begun[h]) : begun[h][k] <= unsub[h].at

C19_Witness ==
    \E h, o \in Subs :
        /\ h # o
        /\ unsub[h].at >= 0
        /\ unsub[o].idx >= 0
        /\ \E k \in 1..Len(begun[o]) : begun[o][k] > unsub[h].at

\* C20: a handler begins the events that one caller emitted one after the
\* other in the order they were emitted.
C20_SameCallerFifo ==
    \A h \in Subs :
        \A a, b \in 1..Len(begun[h]) : a < b => begun[h][a] < begun[h][b]

\* processes created and completions handled so far
Started == nextProcessID - 1
Finished == Cardinality({i \in 1..Len(processes) :
                IsUser(processes[i]) /\ processes[i].Status \in Terminal})

\* C21: every process start and every process completion has its Emit call on
\* the event bus, so the bus has seen at least as many Emit calls as there are
\* started plus finished processes.
C21_StartAndFinishAreEmitted == emitted >= Started + Finished

\* the request in hand is a tools/call and its response is ready to be written
Answering(name) ==
    /\ conn.pc = "encode"
    /\ conn.line.kind = "json"
    /\ conn.line.method = "tools/call"
    /\ conn.line.name = name

\* C22: on both servers, no tools/list result written to the stream contains a
\* tool that IsMCPToolEnabled rejects under the loaded settings.
C22_ListOmitsDisabledTools ==
    \A i \in 1..Len(stdout) :
        \A t \in stdout[i].tools : IsMCPToolEnabled(mcpSettings, t)

C24_UnknownActionIsAnError ==
    ( /\ Answering(RunDebugActionTool)
      /\ IsMCPToolEnabled(mcpSettings, RunDebugActionTool)
      /\ conn.line.arg # ""
      /\ conn.line.arg \notin DebugActions )
        => /\ conn.resp.kind = "error"
           /\ conn.resp.message = "Unknown action: " \o conn.line.arg

\* C25: no line a client writes ends the serving loop: the loop is never left
\* while the stream is open, and when it is back at the scanner every line it
\* handed to the handler has its response on the stream.
C25_BadRequestKeepsServing ==
    /\ conn.pc # "closed"
    /\ conn.pc = "scan" => Len(stdout) = Len(conn.served)

\* the methods a server's handleRequest has a case for, and the tools of the
\* model that require an argument
KnownMethods == {"initialize", "tools/list", "tools/call"}
ArgTools == {RunOnDevice, RunDebugActionTool, KillProcessTool}

\* the one fault of a request line, if it has exactly one of the three
Fault(line) ==
    CASE line.kind # "json" -> "unparseable"
      [] line.kind = "json" /\ line.method \notin KnownMethods -> "unknown method"
      [] /\ line.kind = "json"
         /\ line.method = "tools/call"
         /\ line.name \in Catalog(server) \cap ArgTools
         /\ IsMCPToolEnabled(mcpSettings, line.name)
         /\ line.arg = "" -> "missing argument"
      [] OTHER -> "none"

StatusString(st) ==
    CASE st = ProcessRunning -> "running"
      [] st = ProcessSuccess -> "success"
      [] st = ProcessFailed -> "failed"
      [] st = ProcessCancelled -> "cancelled"
      [] OTHER -> "unknown"

\* the body of the GetProcesses callback on a process list
ListProcesses(procs) ==
    [i \in 1..Len(procs) |-> [ID |-> procs[i].ID, Status |-> StatusString(procs[i].Status)]]

\* Context.GetProcesses and Context.GetProcessLogs: the callbacks range over
\* the processes of the Model value the closures captured
GetProcesses == ListProcesses(ctxProcesses)
GetProcessLogs(id) ==
    IF Find(ctxProcesses, id) = 0 THEN <<>> ELSE ctxProcesses[Find(ctxProcesses, id)].Logs

\* C28: every process the UI has started is in the list GetProcesses returns,
\* with the status the UI shows for it, and GetProcessLogs returns its log.
C28_ContextSeesUiProcesses ==
    \A i \in 1..Len(processes) :
        IsUser(processes[i])
            => /\ \E j \in 1..Len(GetProcesses) :
                     /\ GetProcesses[j].ID = processes[i].ID
                     /\ GetProcesses[j].Status = StatusString(processes[i].Status)
               /\ GetProcessLogs(processes[i].ID) = processes[i].Logs

\* the enum the get_all_logs schema advertises for "status", and the state
\* each value names
StatusFilters == {"running", "success", "failed", "canceled"}
FilterState(f) ==
    CASE f = "running" -> ProcessRunning
      [] f = "success" -> ProcessSuccess
      [] f = "failed" -> ProcessFailed
      [] f = "canceled" -> ProcessCancelled

\* toolGetAllLogs, the status filter: the listed processes it keeps
StatusFiltered(infos, f) == {j \in 1..Len(infos) : ~(f # "" /\ infos[j].Status # f)}

\* C29: for each advertised filter value, the status filter of get_all_logs
\* applied to the listing of the UI's process table keeps exactly the
\* processes that are in the state the value names.
C29_StatusFilterMatchesListing ==
    \A f \in StatusFilters :
        StatusFiltered(ListProcesses(processes), f)
            = {j \in 1..Len(processes) : processes[j].Status = FilterState(f)}

\* the line the deviceBootedMsg handler logged last
LastBootLine == processes[1].Logs[Len(processes[1].Logs)].tag

\* C30: the wait for a booting device makes at most BootPolls polls, it ends
\* with "timeout" exactly when all of them found no device, and the line
\* logged for a timeout differs from the line logged for a boot command that
\* failed.
C30_BootWaitIsBounded ==
    /\ boot.i <= BootPolls
    /\ boot.pc = "poll" => boot.i < BootPolls
    /\ boot.err = "timeout" => boot.pc \in {"msg", "done"} /\ boot.i = BootPolls
    /\ (boot.pc = "done" /\ boot.err # "nil")
          => (LastBootLine = BootFailedLine("timeout") <=> boot.err = "timeout")

C30_Witness ==
    /\ boot.pc = "done"
    /\ boot.err = "timeout"
    /\ LastBootLine = "Boot failed: timeout"

\* C31: in every panel, the q key quits only when the q press before it was
\* less than QuitWindow seconds earlier.
C31_QuitNeedsTwoPresses ==
    quit.quitting => /\ quit.prevQ >= 0
                     /\ quit.lastQ - quit.prevQ < QuitWindow

C31_Witness ==
    /\ quit.quitting
    /\ quit.view = "plugins"
    /\ quit.prevQ > QuitWindow

\* C32: every access to the Manager's maps, its started flag and its context,
\* and to the process table, is made by a goroutine that holds the lock.
C32_AccessUnderLock == lk.bare = {}

\* C33: once every call has returned, plugins.json holds the enabled, running
\* and settings state the Manager has in memory.
C33_ReturnedMeansPersisted ==
    (lk.calls > 0 /\ \A c \in Callers : lk.g[c].pc = "idle") => lk.file = lk.mem

\* C34: no reader is about to send, or has sent, on the output channel once
\* the completion watcher has closed it.
C34_NoSendAfterClose ==
    /\ ~pipe.panic
    /\ pipe.closed => \A s \in Streams : pipe.rd[s] # "send"

\* C35: in the Firebase plugin, after a Start that launched a process, the
\* plugin reports running and holds that process's handle for as long as the
\* process is alive and Stop has not been called again, whatever the exit
\* watchers of earlier launches do.
C35_OldExitLeavesNewStart ==
    (fb.cur # 0 /\ fb.cur \in fb.alive /\ ~fb.stopped)
        => fb.running /\ fb.cmd = fb.cur

\* C36: in the Firebase plugin, the goroutine that Stop starts never calls
\* Wait on a handle the exit watcher has set to nil.
C36_StopWaitHasHandle == ~fb.panic

\* the accept loop of listener l is running on a listener that is closed
LoopStopped(l) == mcpd.loop[l].st = "run" /\ l \notin mcpd.open

\* C37: after Stop of the MCP plugin in TCP mode, the accept loop of the
\* listener that Stop closed eventually returns, also when Start is called
\* again before the loop has tested the stop channel.
C37_StoppedLoopEnds ==
    \A l \in 1..MaxCalls : LoopStopped(l) ~> (mcpd.loop[l].st = "done")

\* C38: once every Start and Stop call on the MCP plugin has returned, the
\* plugin reports running exactly when it holds an open listener, and no
\* listener is open while it reports not running.
C38_RunningIffListening ==
    (mcpd.calls > 0 /\ \A c \in Callers : mcpd.g[c].pc = "idle")
        => /\ mcpd.running <=> (mcpd.listener # 0 /\ mcpd.listener \in mcpd.open)
           /\ ~mcpd.running => mcpd.open = {}

\* the "Boot <device>" process, the first one runAction created, has status
\* Running
BootProcessRunning ==
    /\ boot.pc # "idle"
    /\ \E i \in 1..Len(processes) : /\ processes[i].ID = UserID(1)
                                     /\ processes[i].Status = ProcessRunning

\* C39: the "Boot <device>" process created for a run on an offline device
\* eventually leaves the Running status, whether the boot succeeds, fails or
\* times out.
C39_BootProcessEnds == BootProcessRunning ~> ~BootProcessRunning

\* C40: when SetEnabled returns an error, the plugin's enabled flag in memory
\* is what it was before the call and the configuration on disk is the one
\* from before the call.
C40_FailedSetEnabledChangesNothing ==
    [][(ui.pc = "flagged" /\ ui'.pc = "returned" /\ ui'.err)
          => /\ (mEnabled'[ui.id] = "on") <=> ui.was
             /\ disk' = disk]_vars

====
